---- MODULE Spec2Model ----
(***************************************************************************)
(* Verification model of the pricing and calibration engine of grapher_v2  *)
(* (pricing/engine.ts, latest revision: normalCDF, priceAbove, priceHit    *)
(* with barrier direction, priceOptionYes, solveImpliedVol,                *)
(* computePnlCurve, computeExpiryPnl) and of the calibration step          *)
(* (selectedStrikes) and the selection set (handleToggle) of SecondScreen. *)
(*                                                                         *)
(* NUMBERS.  The program computes in IEEE-754 binary64.  The model keeps   *)
(* the shape of that arithmetic at a reduced size: a number is an integer  *)
(* count of units of 1/SCALE (resolution 1e-7 instead of 2^-1074), finite  *)
(* magnitudes end at MaxFinite (instead of 1.8e308), and the three special *)
(* values PosInf, NegInf and NaN are kept.  As in binary64 a result whose  *)
(* magnitude is below the resolution becomes 0 (underflow), one beyond the *)
(* finite range becomes an infinity (overflow), 0/0 and Inf-Inf are NaN,   *)
(* x/0 is an infinity, and every comparison with NaN is false.  A number   *)
(* carries a significand below SCALE (about 23 bits instead of 53): below  *)
(* 1.0 every count of units is a number, from 1.0 on the spacing of the    *)
(* numbers doubles with each power of two, and the result of an operation  *)
(* is rounded toward zero to the next number.  So, as in binary64, a sum   *)
(* may depend on the order of its terms.  Spot and strike prices are small *)
(* whole numbers of units; only ratios, differences and order of prices    *)
(* enter the formulas.                                                     *)
(***************************************************************************)
EXTENDS Integers, Sequences, FiniteSets, TLC

SCALE == 10^7
LIMB == 10^4
MaxFinite == 10^9
PosInf == 2 * 10^9
NegInf == -PosInf
NaN == 21 * 10^8
null == NaN + 1

ONE == SCALE

IsFinite(x) == x >= -MaxFinite /\ x <= MaxFinite

Sgn(x) == IF x > 0 THEN 1 ELSE IF x < 0 THEN -1 ELSE 0

Mag(x) == IF x < 0 THEN -x ELSE x

\* the number next to the magnitude m toward zero
RECURSIVE Rnd(_, _)
Rnd(m, ulp) == IF m \div ulp < SCALE THEN (m \div ulp) * ulp ELSE Rnd(m, 2 * ulp)

Sat(v) ==
  IF v > MaxFinite THEN PosInf
  ELSE IF v < -MaxFinite THEN NegInf
  ELSE Sgn(v) * Rnd(Mag(v), 1)

\* Math.abs
FAbs(x) == IF x = NaN THEN NaN ELSE Mag(x)

\* unary minus
FNeg(x) == IF x = NaN THEN NaN ELSE -x

\* x + y
FAdd(x, y) ==
  IF x = NaN \/ y = NaN THEN NaN
  ELSE IF ~IsFinite(x) THEN (IF ~IsFinite(y) /\ y # x THEN NaN ELSE x)
  ELSE IF ~IsFinite(y) THEN y
  ELSE Sat(x + y)

\* x - y
FSub(x, y) == FAdd(x, FNeg(y))

\* |a*b| for finite magnitudes a, b, by limbs so that no partial product
\* leaves the 32-bit integers of the checker
MulMag(a, b) ==
  LET a1 == a \div LIMB
      a0 == a % LIMB
      b1 == b \div LIMB
      b0 == b % LIMB
      hiFactor == (LIMB * LIMB) \div SCALE
      loDiv == SCALE \div LIMB
      cross == a1 * b0 + a0 * b1
  IN IF a1 > 0 /\ b1 > (MaxFinite \div hiFactor) \div a1 THEN PosInf
     ELSE Sat(a1 * b1 * hiFactor + cross \div loDiv
              + ((cross % loDiv) * LIMB + a0 * b0) \div SCALE)

\* x * y
FMul(x, y) ==
  IF x = NaN \/ y = NaN THEN NaN
  ELSE IF (~IsFinite(x) /\ y = 0) \/ (~IsFinite(y) /\ x = 0) THEN NaN
  ELSE IF ~IsFinite(x) \/ ~IsFinite(y)
       THEN (IF Sgn(x) * Sgn(y) > 0 THEN PosInf ELSE NegInf)
  ELSE Sgn(x) * Sgn(y) * MulMag(Mag(x), Mag(y))

\* the digits of r/dd after the point, r < dd <= 2*10^8
RECURSIVE DivDigits(_, _, _, _)
DivDigits(acc, r, dd, digits) ==
  IF digits = 0 THEN acc
  ELSE DivDigits(acc * 10 + (r * 10) \div dd, (r * 10) % dd, dd, digits - 1)

\* |n/dd| for finite magnitudes n >= 0, dd > 0
RECURSIVE DivMag(_, _)
DivMag(n, dd) ==
  IF dd > 2 * 10^8 THEN DivMag(n \div 10, dd \div 10)
  ELSE IF n \div dd > MaxFinite \div SCALE THEN PosInf
  ELSE Sat(DivDigits(n \div dd, n % dd, dd, 7))

\* x / y
FDiv(x, y) ==
  IF x = NaN \/ y = NaN THEN NaN
  ELSE IF ~IsFinite(x) /\ ~IsFinite(y) THEN NaN
  ELSE IF y = 0 THEN (IF x = 0 THEN NaN ELSE IF x > 0 THEN PosInf ELSE NegInf)
  ELSE IF ~IsFinite(y) THEN 0
  ELSE IF ~IsFinite(x) THEN (IF Sgn(x) * Sgn(y) > 0 THEN PosInf ELSE NegInf)
  ELSE Sgn(x) * Sgn(y) * DivMag(Mag(x), Mag(y))

\* x / 2 and 0.5 * x
FHalf(x) == IF x = NaN \/ ~IsFinite(x) THEN x ELSE Sat(Sgn(x) * (Mag(x) \div 2))

\* comparisons: false as soon as one side is NaN
FLt(x, y) == x # NaN /\ y # NaN /\ x < y
FLe(x, y) == x # NaN /\ y # NaN /\ x <= y
FGt(x, y) == FLt(y, x)
FGe(x, y) == FLe(y, x)

\* Math.min, Math.max
FMin(x, y) == IF x = NaN \/ y = NaN THEN NaN ELSE IF x < y THEN x ELSE y
FMax(x, y) == IF x = NaN \/ y = NaN THEN NaN ELSE IF x > y THEN x ELSE y

LN2 == 6931472

\* the Taylor series of exp(-r), 0 <= r < ln 2
RECURSIVE ExpSeries(_, _, _, _)
ExpSeries(acc, term, r, n) ==
  IF n > 14 THEN acc
  ELSE LET t == FMul(term, -r)
           next == Sgn(t) * (Mag(t) \div n)
       IN ExpSeries(acc + next, next, r, n + 1)

\* Math.exp(-z) for z >= 0
ExpNeg(z) ==
  IF z = NaN THEN NaN
  ELSE IF z = PosInf THEN 0
  ELSE LET k == z \div LN2
           r == z - k * LN2
       IN IF k > 30 THEN 0 ELSE ExpSeries(ONE, ONE, r, 1) \div (2^k)

\* the series of 2*atanh(u) = ln((1+u)/(1-u))
RECURSIVE LnSeries(_, _, _, _)
LnSeries(acc, term, u2, n) ==
  IF n > 25 THEN acc
  ELSE LET t == FMul(term, u2)
       IN LnSeries(acc + Sgn(t) * (Mag(t) \div n), t, u2, n + 2)

\* Math.log(x) for 0 < x, by halving or doubling x into [0.75, 1.5]
RECURSIVE FLog(_)
FLog(x) ==
  IF x = NaN \/ x < 0 THEN NaN
  ELSE IF x = 0 THEN NegInf
  ELSE IF x = PosInf THEN PosInf
  ELSE IF x > (3 * ONE) \div 2 THEN FAdd(FLog((x + 1) \div 2), LN2)
  ELSE IF x < (3 * ONE) \div 4 THEN FAdd(FLog(x * 2), -LN2)
  ELSE LET u == FDiv(x - ONE, x + ONE)
       IN 2 * LnSeries(u, u, FMul(u, u), 3)

\* Newton's iteration for the square root, from above
RECURSIVE SqrtIter(_, _)
SqrtIter(t, x) ==
  LET y == (x + FDiv(t, x)) \div 2
  IN IF y >= x THEN x ELSE SqrtIter(t, y)

\* Math.sqrt(t)
FSqrt(t) ==
  IF t = NaN \/ t < 0 THEN NaN
  ELSE IF t = 0 \/ t = PosInf THEN t
  ELSE Sat(SqrtIter(t, IF t > ONE THEN t ELSE ONE))

(***************************************************************************)
(* normalCDF, priceAbove, priceHit, priceOptionYes                         *)
(***************************************************************************)
a1 == 2548296
a2 == -2844967
a3 == 14214137
a4 == -14531520
a5 == 10614054
p == 3275911

\* mutant: the sign of x is dropped from the result
normalCDFUnsigned(x) ==
  IF FGt(x, 8 * ONE) THEN ONE
  ELSE IF FLt(x, -8 * ONE) THEN 0
  ELSE LET sign == IF FLt(x, 0) THEN -1 ELSE 1
           absX == FAbs(x)
           t == FDiv(ONE, FAdd(ONE, FMul(p, absX)))
           t2 == FMul(t, t)
           t3 == FMul(t2, t)
           t4 == FMul(t3, t)
           t5 == FMul(t4, t)
           poly == FAdd(FAdd(FAdd(FAdd(FMul(a1, t), FMul(a2, t2)), FMul(a3, t3)),
                             FMul(a4, t4)), FMul(a5, t5))
           y == FSub(ONE, FMul(poly, ExpNeg(FHalf(FMul(absX, absX)))))
       IN FHalf(FAdd(ONE, y))

normalCDF(x) ==
  IF FGt(x, 8 * ONE) THEN ONE
  ELSE IF FLt(x, -8 * ONE) THEN 0
  ELSE LET sign == IF FLt(x, 0) THEN -1 ELSE 1
           absX == FAbs(x)
           t == FDiv(ONE, FAdd(ONE, FMul(p, absX)))
           t2 == FMul(t, t)
           t3 == FMul(t2, t)
           t4 == FMul(t3, t)
           t5 == FMul(t4, t)
           poly == FAdd(FAdd(FAdd(FAdd(FMul(a1, t), FMul(a2, t2)), FMul(a3, t3)),
                             FMul(a4, t4)), FMul(a5, t5))
           y == FSub(ONE, FMul(poly, ExpNeg(FHalf(FMul(absX, absX)))))
       IN FHalf(FAdd(ONE, FMul(sign * ONE, y)))

\* mutant: the step excludes S = K
priceAboveStrict(S_, K_, sigma_, tau_) ==
  IF tau_ <= 0 THEN (IF S_ > K_ THEN ONE ELSE 0)
  ELSE IF sigma_ <= 0 THEN (IF S_ > K_ THEN ONE ELSE 0)
  ELSE LET sqrtTau == FSqrt(tau_)
           d2 == FDiv(FSub(FLog(FDiv(S_, K_)), FHalf(FMul(FMul(sigma_, sigma_), tau_))),
                      FMul(sigma_, sqrtTau))
       IN normalCDF(d2)

priceAbove(S_, K_, sigma_, tau_) ==
  IF tau_ <= 0 THEN (IF S_ >= K_ THEN ONE ELSE 0)
  ELSE IF sigma_ <= 0 THEN (IF S_ >= K_ THEN ONE ELSE 0)
  ELSE LET sqrtTau == FSqrt(tau_)
           d2 == FDiv(FSub(FLog(FDiv(S_, K_)), FHalf(FMul(FMul(sigma_, sigma_), tau_))),
                      FMul(sigma_, sqrtTau))
       IN normalCDF(d2)

\* mutant: the direction is derived again from the spot (up when H > S)
priceHitRederived(S_, H_, sigma_, tau_, isUp_) ==
  IF S_ = H_ THEN ONE
  ELSE IF H_ > S_
  THEN IF S_ >= H_ THEN ONE
       ELSE IF tau_ <= 0 \/ sigma_ <= 0 THEN 0
       ELSE LET sqrtTau == FSqrt(tau_)
                logSH == FLog(FDiv(S_, H_))
                halfSigmaSqTau == FHalf(FMul(FMul(sigma_, sigma_), tau_))
                d1 == FDiv(FSub(logSH, halfSigmaSqTau), FMul(sigma_, sqrtTau))
                d2 == FDiv(FAdd(logSH, halfSigmaSqTau), FMul(sigma_, sqrtTau))
            IN FMin(ONE, FMax(0, FAdd(normalCDF(d1), FMul(FDiv(S_, H_), normalCDF(d2)))))
  ELSE IF S_ <= H_ THEN ONE
       ELSE IF tau_ <= 0 \/ sigma_ <= 0 THEN 0
       ELSE LET sqrtTau == FSqrt(tau_)
                logHS == FLog(FDiv(H_, S_))
                halfSigmaSqTau == FHalf(FMul(FMul(sigma_, sigma_), tau_))
                e1 == FDiv(FAdd(logHS, halfSigmaSqTau), FMul(sigma_, sqrtTau))
                e2 == FDiv(FSub(logHS, halfSigmaSqTau), FMul(sigma_, sqrtTau))
            IN FMin(ONE, FMax(0, FAdd(normalCDF(e1), FMul(FDiv(S_, H_), normalCDF(e2)))))

\* mutant: at expiry or with no volatility the price is the step of priceAbove
priceHitStep(S_, H_, sigma_, tau_, isUp_) ==
  IF S_ = H_ THEN ONE
  ELSE IF isUp_
  THEN IF S_ >= H_ THEN ONE
       ELSE IF tau_ <= 0 \/ sigma_ <= 0 THEN (IF S_ >= H_ THEN ONE ELSE 0)
       ELSE LET sqrtTau == FSqrt(tau_)
                logSH == FLog(FDiv(S_, H_))
                halfSigmaSqTau == FHalf(FMul(FMul(sigma_, sigma_), tau_))
                d1 == FDiv(FSub(logSH, halfSigmaSqTau), FMul(sigma_, sqrtTau))
                d2 == FDiv(FAdd(logSH, halfSigmaSqTau), FMul(sigma_, sqrtTau))
            IN FMin(ONE, FMax(0, FAdd(normalCDF(d1), FMul(FDiv(S_, H_), normalCDF(d2)))))
  ELSE IF S_ <= H_ THEN ONE
       ELSE IF tau_ <= 0 \/ sigma_ <= 0 THEN (IF S_ >= H_ THEN ONE ELSE 0)
       ELSE LET sqrtTau == FSqrt(tau_)
                logHS == FLog(FDiv(H_, S_))
                halfSigmaSqTau == FHalf(FMul(FMul(sigma_, sigma_), tau_))
                e1 == FDiv(FAdd(logHS, halfSigmaSqTau), FMul(sigma_, sqrtTau))
                e2 == FDiv(FSub(logHS, halfSigmaSqTau), FMul(sigma_, sqrtTau))
            IN FMin(ONE, FMax(0, FAdd(normalCDF(e1), FMul(FDiv(S_, H_), normalCDF(e2)))))

priceHit(S_, H_, sigma_, tau_, isUp_) ==
  IF S_ = H_ THEN ONE
  ELSE IF isUp_
  THEN IF S_ >= H_ THEN ONE
       ELSE IF tau_ <= 0 \/ sigma_ <= 0 THEN 0
       ELSE LET sqrtTau == FSqrt(tau_)
                logSH == FLog(FDiv(S_, H_))
                halfSigmaSqTau == FHalf(FMul(FMul(sigma_, sigma_), tau_))
                d1 == FDiv(FSub(logSH, halfSigmaSqTau), FMul(sigma_, sqrtTau))
                d2 == FDiv(FAdd(logSH, halfSigmaSqTau), FMul(sigma_, sqrtTau))
            IN FMin(ONE, FMax(0, FAdd(normalCDF(d1), FMul(FDiv(S_, H_), normalCDF(d2)))))
  ELSE IF S_ <= H_ THEN ONE
       ELSE IF tau_ <= 0 \/ sigma_ <= 0 THEN 0
       ELSE LET sqrtTau == FSqrt(tau_)
                logHS == FLog(FDiv(H_, S_))
                halfSigmaSqTau == FHalf(FMul(FMul(sigma_, sigma_), tau_))
                e1 == FDiv(FAdd(logHS, halfSigmaSqTau), FMul(sigma_, sqrtTau))
                e2 == FDiv(FSub(logHS, halfSigmaSqTau), FMul(sigma_, sqrtTau))
            IN FMin(ONE, FMax(0, FAdd(normalCDF(e1), FMul(FDiv(S_, H_), normalCDF(e2)))))

priceOptionYes(S_, K_, sigma_, tau_, optionType_, isUp_) ==
  IF optionType_ = "above" THEN priceAbove(S_, K_, sigma_, tau_)
  ELSE priceHit(S_, K_, sigma_, tau_, isUp_)

(***************************************************************************)
(* State.  The arguments and locals of solveImpliedVol carry the names of  *)
(* the source; pc is the position in the function, ret the return          *)
(* statement taken, evals the number of calls of f made so far, caller     *)
(* says whether the function was called directly or by the calibration     *)
(* step (selectedStrikes), and selectedStrikes is that step's output.      *)
(* fn and price belong to a direct call of one of the pricers, x to a call *)
(* of normalCDF.  strikes, lowerPrice, upperPrice, numPoints are the       *)
(* arguments and totalEntry, step, points the locals of computePnlCurve    *)
(* and computeExpiryPnl (fn says which one, i is their loop counter);      *)
(* previous records the call made before the current one.  selections is   *)
(* the selection set of the second screen and toggles the number of        *)
(* toggles each (marketId, side) pair has received.  request, upstream,    *)
(* response and forwarded belong to the worker, smile, moneyness and iv    *)
(* to a call of interpolateSmile, and markets, spotPrice, tauNow,          *)
(* priceRange, keys and projectionCurves to the screen (keys is the        *)
(* selection Set in its iteration order).                                  *)
(***************************************************************************)
VARIABLES S, K, tau, yesPrice, optionType, isUpBarrier, maxIter, caller,
          pc, ret, evals, a, b, c, fa, fb, fc, d, e, i,
          sigma, bestSigma, bestError, result, selectedStrikes, fn, price,
          x, strikes, lowerPrice, upperPrice, numPoints, totalEntry, step,
          points, previous, selections, toggles,
          request, upstream, response, forwarded,
          smile, moneyness, iv,
          markets, spotPrice, tauNow, priceRange, keys, projectionCurves

vars == <<S, K, tau, yesPrice, optionType, isUpBarrier, maxIter, caller,
          pc, ret, evals, a, b, c, fa, fb, fc, d, e, i,
          sigma, bestSigma, bestError, result, selectedStrikes, fn, price,
          x, strikes, lowerPrice, upperPrice, numPoints, totalEntry, step,
          points, previous, selections, toggles,
          request, upstream, response, forwarded,
          smile, moneyness, iv,
          markets, spotPrice, tauNow, priceRange, keys, projectionCurves>>

inputs == <<S, K, tau, yesPrice, optionType, isUpBarrier, maxIter, caller>>
brentLocals == <<a, b, c, fa, fb, fc, d, e, i>>
scanLocals == <<sigma, bestSigma, bestError>>
pricerVars == <<fn, price>>
curveVars == <<strikes, lowerPrice, upperPrice, numPoints, totalEntry, step, points, previous>>
selectionVars == <<selections, toggles>>
workerVars == <<request, upstream, response, forwarded>>
smileVars == <<smile, moneyness, iv>>
screenVars == <<markets, spotPrice, tauNow, priceRange, keys, projectionCurves>>

\* no call of a curve generator has been made
NoCall == [fn |-> "none", strikes |-> <<>>, points |-> <<>>]

\* the variables of the curve generators and of the selection, out of use
CurveUnused ==
  /\ strikes = <<>> /\ lowerPrice = 0 /\ upperPrice = 0 /\ numPoints = 0
  /\ totalEntry = 0 /\ step = 0 /\ points = <<>> /\ previous = NoCall

SelectionUnused == selections = {} /\ toggles = <<>>

\* the variables of the screen, out of use
ScreenUnused ==
  /\ markets = <<>> /\ spotPrice = 0 /\ tauNow = 0 /\ priceRange = <<0, 0>>
  /\ keys = <<>> /\ projectionCurves = <<>>

\* the variables of the smile, out of use
SmileUnused == smile = <<>> /\ moneyness = 0 /\ iv = 0

\* the variables of the worker, out of use
WorkerUnused == request = <<>> /\ upstream = <<>> /\ response = <<>> /\ forwarded = <<>>

\* the constants of solveImpliedVol
SigmaLo == ONE \div 100
SigmaHi == 10 * ONE
PriceFloor == ONE \div 1000
PriceCeil == 999 * (ONE \div 1000)
GridStart == 5 * (ONE \div 100)
GridStep == 5 * (ONE \div 100)
tolerance == ONE \div 10^6
DefaultMaxIter == 100
\* Number.EPSILON = 2^-52 lies below the resolution
EPSILON == (ONE \div 2^26) \div 2^26
\* iv ?? 0.5
FallbackVol == ONE \div 2

\* the inputs explored
SmallMaxIter == 2
\* 7/365.25 and 30/365.25 years
Tau7d == FDiv(700, 36525)
Tau30d == FDiv(3000, 36525)
\* three years
Tau3y == 3 * ONE
SpotChoices == {90000, 100000, 105000}
StrikeChoices == {100000}
TauChoices == {0 - Tau7d, 0, Tau7d, Tau30d, Tau3y}
YesPriceChoices == {PriceFloor \div 2, PriceFloor, 15 * (ONE \div 100), 2 * (ONE \div 10),
                    5 * (ONE \div 10), 8 * (ONE \div 10), PriceCeil,
                    PriceCeil + PriceFloor \div 2}
OptionTypes == {"above", "hit"}
MaxIterChoices == {0, SmallMaxIter, DefaultMaxIter}

\* f = (sigma) => priceOptionYes(S, K, sigma, tau, optionType, isUpBarrier) - yesPrice
f(sigma_) == FSub(priceOptionYes(S, K, sigma_, tau, optionType, isUpBarrier), yesPrice)

\* u * v > 0.  The operands are residuals (a probability minus yesPrice):
\* when not zero their magnitude is at least 2^-53, so the binary64 product
\* cannot underflow and its sign is the product of the signs.
ProdPos(u, v) == u # NaN /\ v # NaN /\ ((u > 0 /\ v > 0) \/ (u < 0 /\ v < 0))

\* sigma <= 10.0 in the loop "for (sigma = 0.05; sigma <= 10.0; sigma += 0.05)".
\* The binary64 partial sums of 0.05 are 0.05, 0.1, ..., 9.950000000000006,
\* 10.000000000000007: the 200th lies above 10.0 and ends the loop, so the
\* body runs for the 199 values below 10.0.
ScanContinues(sigma_) == FLt(sigma_, SigmaHi)

\* iv ?? 0.5
Coalesce(iv_) == IF iv_ = null THEN FallbackVol ELSE iv_

SolverInit ==
  /\ S \in SpotChoices
  /\ K \in StrikeChoices
  /\ tau \in TauChoices
  /\ yesPrice \in YesPriceChoices
  /\ optionType \in OptionTypes
  /\ caller \in {"direct", "selectedStrikes"}
  /\ isUpBarrier \in (IF caller = "direct" THEN BOOLEAN ELSE {TRUE})
  /\ maxIter \in (IF caller = "direct" THEN MaxIterChoices ELSE {DefaultMaxIter})
  /\ pc = "start"
  /\ ret = "none"
  /\ evals = 0
  /\ a = 0 /\ b = 0 /\ c = 0 /\ fa = 0 /\ fb = 0 /\ fc = 0 /\ d = 0 /\ e = 0 /\ i = 0
  /\ sigma = 0 /\ bestSigma = 0 /\ bestError = 0
  /\ result = null
  /\ selectedStrikes = <<>>
  /\ fn = "none" /\ price = 0
  /\ x = 0 /\ CurveUnused /\ SelectionUnused
  /\ WorkerUnused /\ SmileUnused /\ ScreenUnused

\* selectedStrikes: "if (!spotPrice || tauNow <= 0) return []"
SelectedStrikesEmpty ==
  /\ pc = "start" /\ caller = "selectedStrikes"
  /\ (S = 0 \/ tau <= 0)
  /\ selectedStrikes' = <<>>
  /\ pc' = "done"
  /\ UNCHANGED <<inputs, ret, evals, brentLocals, scanLocals, result, pricerVars, x, curveVars, selectionVars, workerVars, smileVars, screenVars>>

\* mutant: strict comparisons with the two price thresholds
EdgeCaseStrict(yesPrice_, tau_) ==
  IF yesPrice_ < PriceFloor THEN "floor"
  ELSE IF yesPrice_ > PriceCeil THEN "ceiling"
  ELSE IF tau_ <= 0 THEN "null"
  ELSE "none"

\* the three early returns of solveImpliedVol, in the order of the source:
\* if (yesPrice <= 0.001) return 0.01; if (yesPrice >= 0.999) return 10.0;
\* if (tau <= 0) return null;
EdgeCase(yesPrice_, tau_) ==
  IF yesPrice_ <= PriceFloor THEN "floor"
  ELSE IF yesPrice_ >= PriceCeil THEN "ceiling"
  ELSE IF tau_ <= 0 THEN "null"
  ELSE "none"

\* mutant: the floor volatility is 0
EdgeValueZeroFloor(edge) ==
  IF edge = "floor" THEN 0 ELSE IF edge = "ceiling" THEN SigmaHi ELSE null

EdgeValue(edge) ==
  IF edge = "floor" THEN SigmaLo ELSE IF edge = "ceiling" THEN SigmaHi ELSE null

\* solveImpliedVol, from the call to the choice between scan and Brent
SolveEntry ==
  /\ pc = "start"
  /\ caller = "selectedStrikes" => ~(S = 0 \/ tau <= 0)
  /\ IF EdgeCase(yesPrice, tau) # "none"
       THEN /\ result' = EdgeValue(EdgeCase(yesPrice, tau))
            /\ ret' = EdgeCase(yesPrice, tau)
            /\ pc' = "returned"
            /\ UNCHANGED <<evals, brentLocals, scanLocals>>
       ELSE \E fa0 \in {f(SigmaLo)}, fb0 \in {f(SigmaHi)} :
               /\ a' = SigmaLo /\ b' = SigmaHi /\ fa' = fa0 /\ fb' = fb0
               /\ evals' = 2
               /\ UNCHANGED <<result, ret>>
               /\ IF ProdPos(fa0, fb0)
                    THEN /\ bestSigma' = SigmaLo /\ bestError' = FAbs(fa0)
                         /\ sigma' = GridStart
                         /\ pc' = "scan"
                         /\ UNCHANGED <<c, fc, d, e, i>>
                    ELSE /\ c' = SigmaLo /\ fc' = fa0
                         /\ d' = FSub(SigmaHi, SigmaLo) /\ e' = FSub(SigmaHi, SigmaLo)
                         /\ i' = 0
                         /\ pc' = "brent"
                         /\ UNCHANGED scanLocals
  /\ UNCHANGED <<inputs, selectedStrikes, pricerVars, x, curveVars, selectionVars, workerVars, smileVars, screenVars>>

\* one turn of the grid scan
ScanStep ==
  /\ pc = "scan"
  /\ ScanContinues(sigma)
  /\ \E err \in {FAbs(f(sigma))} :
        /\ bestError' = (IF FLt(err, bestError) THEN err ELSE bestError)
        /\ bestSigma' = (IF FLt(err, bestError) THEN sigma ELSE bestSigma)
  /\ sigma' = FAdd(sigma, GridStep)
  /\ evals' = evals + 1
  /\ UNCHANGED <<inputs, pc, ret, brentLocals, result, selectedStrikes, pricerVars, x, curveVars, selectionVars, workerVars, smileVars, screenVars>>

\* "return bestSigma"
ScanReturn ==
  /\ pc = "scan"
  /\ ~ScanContinues(sigma)
  /\ result' = bestSigma /\ ret' = "scan" /\ pc' = "returned"
  /\ UNCHANGED <<inputs, evals, brentLocals, scanLocals, selectedStrikes, pricerVars, x, curveVars, selectionVars, workerVars, smileVars, screenVars>>

\* mutant: one turn too many
LoopContinuesOffByOne(i_, maxIter_) == i_ <= maxIter_

\* for (let i = 0; i < maxIter; i++)
LoopContinues(i_, maxIter_) == i_ < maxIter_

\* head of the Brent loop: "i < maxIter", re-bracketing and the swap that
\* makes b the end with the smaller residual
BrentHead ==
  /\ pc = "brent"
  /\ LoopContinues(i, maxIter)
  /\ LET reb == ProdPos(fb, fc)
         c1 == IF reb THEN a ELSE c
         fc1 == IF reb THEN fa ELSE fc
         d1 == IF reb THEN FSub(b, a) ELSE d
         e1 == IF reb THEN FSub(b, a) ELSE e
         swap == FLt(FAbs(fc1), FAbs(fb))
     IN /\ a' = (IF swap THEN b ELSE a)
        /\ b' = (IF swap THEN c1 ELSE b)
        /\ c' = (IF swap THEN b ELSE c1)
        /\ fa' = (IF swap THEN fb ELSE fa)
        /\ fb' = (IF swap THEN fc1 ELSE fb)
        /\ fc' = (IF swap THEN fb ELSE fc1)
        /\ d' = d1 /\ e' = e1
  /\ pc' = "test"
  /\ UNCHANGED <<inputs, ret, evals, i, scanLocals, result, selectedStrikes, pricerVars, x, curveVars, selectionVars, workerVars, smileVars, screenVars>>

\* const tol = 2 * Number.EPSILON * Math.abs(b) + tolerance
Tol(b_) == FAdd(FMul(FMul(2 * ONE, EPSILON), FAbs(b_)), tolerance)

\* const m = 0.5 * (c - b)
Mid(b_, c_) == FHalf(FSub(c_, b_))

\* mutant: the sign of m is not removed
ConvergedSigned == FLe(Mid(b, c), Tol(b)) \/ FLt(FAbs(fb), tolerance)

\* Math.abs(m) <= tol || Math.abs(fb) < tolerance
Converged == FLe(FAbs(Mid(b, c)), Tol(b)) \/ FLt(FAbs(fb), tolerance)

\* the step d chosen by one turn of the loop, and the new e
BrentChoice ==
  LET tol == Tol(b)
      m == Mid(b, c)
      s_val == FDiv(fb, fa)
      q == FDiv(fa, fc)
      r == FDiv(fb, fc)
      p0 == IF a = c
              THEN FMul(FMul(2 * ONE, m), s_val)
              ELSE FMul(s_val, FSub(FMul(FMul(FMul(2 * ONE, m), q), FSub(q, r)),
                                    FMul(FSub(b, a), FSub(r, ONE))))
      q0 == IF a = c
              THEN FSub(ONE, s_val)
              ELSE FMul(FMul(FSub(q, ONE), FSub(r, ONE)), FSub(s_val, ONE))
      p_val == IF FGt(p0, 0) THEN p0 ELSE FNeg(p0)
      q_val == IF FGt(p0, 0) THEN FNeg(q0) ELSE q0
      accept == FLt(FMul(2 * ONE, p_val),
                    FMin(FSub(FMul(FMul(3 * ONE, m), q_val), FAbs(FMul(tol, q_val))),
                         FAbs(FMul(e, q_val))))
  IN IF FGe(FAbs(e), tol) /\ FGt(FAbs(fa), FAbs(fb))
       THEN IF accept THEN [d |-> FDiv(p_val, q_val), e |-> d] ELSE [d |-> m, e |-> m]
       ELSE [d |-> m, e |-> m]

\* mutant: a step below the tolerance is taken as it is
BrentMoveUnfloored(b_, d_, m_, tol_) == FAdd(b_, d_)

\* b += Math.abs(d) > tol ? d : (m > 0 ? tol : -tol)
BrentMove(b_, d_, m_, tol_) ==
  FAdd(b_, IF FGt(FAbs(d_), tol_) THEN d_ ELSE IF FGt(m_, 0) THEN tol_ ELSE FNeg(tol_))

\* the convergence test and its "return b"
BrentConverged ==
  /\ pc = "test"
  /\ Converged
  /\ result' = b /\ ret' = "converged" /\ pc' = "returned"
  /\ UNCHANGED <<inputs, evals, brentLocals, scanLocals, selectedStrikes, pricerVars, x, curveVars, selectionVars, workerVars, smileVars, screenVars>>

\* the rest of the loop body: interpolation or bisection, the move of b, f(b), i++
BrentStep ==
  /\ pc = "test"
  /\ ~Converged
  /\ \E ch \in {BrentChoice} :
        \E b1 \in {BrentMove(b, ch.d, Mid(b, c), Tol(b))} :
           /\ d' = ch.d /\ e' = ch.e
           /\ a' = b /\ fa' = fb
           /\ b' = b1
           /\ fb' = f(b1)
  /\ evals' = evals + 1
  /\ i' = i + 1
  /\ pc' = "brent"
  /\ UNCHANGED <<inputs, ret, c, fc, scanLocals, result, selectedStrikes, pricerVars, x, curveVars, selectionVars, workerVars, smileVars, screenVars>>

\* the loop ends with i = maxIter: the final "return b"
BrentExhausted ==
  /\ pc = "brent"
  /\ ~LoopContinues(i, maxIter)
  /\ result' = b /\ ret' = "exhausted" /\ pc' = "returned"
  /\ UNCHANGED <<inputs, evals, brentLocals, scanLocals, selectedStrikes, pricerVars, x, curveVars, selectionVars, workerVars, smileVars, screenVars>>

\* selectedStrikes: the strike built from the market and "impliedVol: iv ?? 0.5"
StoreStrike ==
  /\ pc = "returned" /\ caller = "selectedStrikes"
  /\ selectedStrikes' = <<[strikePrice |-> K, currentPrice |-> yesPrice,
                           impliedVol |-> Coalesce(result)]>>
  /\ pc' = "done"
  /\ UNCHANGED <<inputs, ret, evals, brentLocals, scanLocals, result, pricerVars, x, curveVars, selectionVars, workerVars, smileVars, screenVars>>

SolverNext ==
  \/ SelectedStrikesEmpty
  \/ SolveEntry
  \/ ScanStep
  \/ ScanReturn
  \/ BrentHead
  \/ BrentConverged
  \/ BrentStep
  \/ BrentExhausted
  \/ StoreStrike

SolverSpec == SolverInit /\ [][SolverNext]_vars

(***************************************************************************)
(* Direct calls of the pricers                                             *)
(***************************************************************************)
\* the smallest positive number of the arithmetic; it stands for binary64
\* arguments such as sigma = 1e-200, tau = 1e-300, whose product
\* sigma * Math.sqrt(tau) underflows to 0
Tiny == ONE \div SCALE
\* a number whose square lies beyond MaxFinite; it stands for binary64
\* arguments such as sigma = 1e308, tau = 1e10, for which sigma * sigma and
\* sigma * Math.sqrt(tau) overflow to Infinity
Huge == 50 * ONE
PricerSpots == {90000, 100000, 105000}
PricerSigmas == {0 - ONE, 0, Tiny, SigmaLo, 6 * (ONE \div 10), SigmaHi, Huge}
PricerTaus == {0 - Tau7d, 0, Tiny, Tau7d, Tau30d, Huge}

PricerInit ==
  /\ S \in PricerSpots
  /\ K \in StrikeChoices
  /\ sigma \in PricerSigmas
  /\ tau \in PricerTaus
  /\ optionType \in OptionTypes
  /\ isUpBarrier \in BOOLEAN
  /\ pc = "pricer"
  /\ fn = "none" /\ price = 0
  /\ yesPrice = 0 /\ maxIter = 0 /\ caller = "direct"
  /\ ret = "none" /\ evals = 0
  /\ a = 0 /\ b = 0 /\ c = 0 /\ fa = 0 /\ fb = 0 /\ fc = 0 /\ d = 0 /\ e = 0 /\ i = 0
  /\ bestSigma = 0 /\ bestError = 0
  /\ result = null
  /\ selectedStrikes = <<>>
  /\ x = 0 /\ CurveUnused /\ SelectionUnused
  /\ WorkerUnused /\ SmileUnused /\ ScreenUnused

CallPriceAbove ==
  /\ pc = "pricer"
  /\ fn' = "priceAbove"
  /\ price' = priceAbove(S, K, sigma, tau)
  /\ pc' = "priced"
  /\ UNCHANGED <<inputs, ret, evals, brentLocals, scanLocals, result, selectedStrikes,
               x, curveVars, selectionVars, workerVars, smileVars, screenVars>>

CallPriceHit ==
  /\ pc = "pricer"
  /\ fn' = "priceHit"
  /\ price' = priceHit(S, K, sigma, tau, isUpBarrier)
  /\ pc' = "priced"
  /\ UNCHANGED <<inputs, ret, evals, brentLocals, scanLocals, result, selectedStrikes,
               x, curveVars, selectionVars, workerVars, smileVars, screenVars>>

CallPriceOptionYes ==
  /\ pc = "pricer"
  /\ fn' = "priceOptionYes"
  /\ price' = priceOptionYes(S, K, sigma, tau, optionType, isUpBarrier)
  /\ pc' = "priced"
  /\ UNCHANGED <<inputs, ret, evals, brentLocals, scanLocals, result, selectedStrikes,
               x, curveVars, selectionVars, workerVars, smileVars, screenVars>>

\* the arguments of normalCDF explored
CdfArgs ==
  LET pos == {0, Tiny, ONE \div 1000, ONE \div 10, ONE \div 4, ONE \div 2,
              3 * (ONE \div 4), ONE, 3 * (ONE \div 2), 2 * ONE, 3 * ONE, 4 * ONE,
              5 * ONE, 6 * ONE, 8 * ONE - 8 * Tiny, 8 * ONE, 8 * ONE + 8 * Tiny,
              8 * ONE + ONE \div 10, Huge, PosInf}
  IN pos \cup {0 - v : v \in pos}

CallNormalCDF ==
  /\ pc = "pricer"
  /\ \E arg \in CdfArgs : x' = arg /\ price' = normalCDF(arg)
  /\ fn' = "normalCDF"
  /\ pc' = "priced"
  /\ UNCHANGED <<inputs, ret, evals, brentLocals, scanLocals, result, selectedStrikes,
               curveVars, selectionVars, workerVars, smileVars, screenVars>>

PricerNext ==
  \/ CallPriceAbove
  \/ CallPriceHit
  \/ CallPriceOptionYes
  \/ CallNormalCDF

PricerSpec == PricerInit /\ [][PricerNext]_vars

(***************************************************************************)
(* computePnlCurve and computeExpiryPnl.  A behaviour is a caller holding  *)
(* a portfolio (selectedStrikes), a price range, numPoints, tau and the    *)
(* option type, which calls the two generators again and again, passing    *)
(* the Strikes in any order.                                               *)
(***************************************************************************)
MaxPoints == 4

\* Strikes as the second screen builds them (SelectedStrike)
StrikeUpYes ==
  [marketId |-> "m1", strikePrice |-> 100000, side |-> "YES",
   entryPrice |-> 6 * (ONE \div 10) + 1, impliedVol |-> 6 * (ONE \div 10),
   isUpBarrier |-> TRUE]
StrikeDownNo ==
  [marketId |-> "m2", strikePrice |-> 95000, side |-> "NO",
   entryPrice |-> 7 * (ONE \div 10) + 2, impliedVol |-> 8 * (ONE \div 10),
   isUpBarrier |-> FALSE]
StrikeUpNo ==
  [marketId |-> "m3", strikePrice |-> 102000, side |-> "NO",
   entryPrice |-> ONE \div 10 + 9, impliedVol |-> FallbackVol,
   isUpBarrier |-> TRUE]

\* the NO Strike of the market of StrikeUpYes: the entry price is 1 - YES price
StrikeUpYesHedge ==
  [StrikeUpYes EXCEPT !.side = "NO", !.entryPrice = FSub(ONE, StrikeUpYes.entryPrice)]

Portfolios ==
  {<<>>, <<StrikeUpYes>>, <<StrikeUpYes, StrikeDownNo>>,
   <<StrikeUpYes, StrikeDownNo, StrikeUpNo>>,
   <<StrikeUpYes, StrikeUpYesHedge>>, <<StrikeUpYes, StrikeDownNo, StrikeUpYesHedge>>}
\* <<lowerPrice, upperPrice>>
PriceRanges ==
  {<<90000, 105000>>, <<95000, 105000>>, <<100000, 100000>>, <<105000, 90000>>}
NumPointsChoices == {1, 2, MaxPoints}
CurveTaus == {0, Tau30d}

\* the arrays holding the elements of s in any order
Perms(s) ==
  IF s = <<>> THEN {<<>>}
  ELSE {[k \in 1..Len(s) |-> s[q[k]]] : q \in Permutations(1..Len(s))}

\* strikes.reduce((sum, s) => sum + s.entryPrice, 0), over the first k Strikes
RECURSIVE totalEntryOf(_, _)
totalEntryOf(strikes_, k) ==
  IF k = 0 THEN 0
  ELSE FAdd(totalEntryOf(strikes_, k - 1), strikes_[k].entryPrice)

\* (upperPrice - lowerPrice) / (numPoints - 1)
stepOf(lowerPrice_, upperPrice_, numPoints_) ==
  FDiv(FSub(upperPrice_, lowerPrice_), (numPoints_ - 1) * ONE)

\* lowerPrice + step * i
cryptoPriceAt(lowerPrice_, step_, i_) == FAdd(lowerPrice_, FMul(step_, i_ * ONE))

\* mutant: a NO position is valued like a YES position
sideValueYesOnly(side_, yes_) == yes_

\* strike.side === 'YES' ? yesPrice : (1 - yesPrice)
sideValue(side_, yes_) == IF side_ = "YES" THEN yes_ ELSE FSub(ONE, yes_)

\* projectedValue after the first k Strikes of the inner loop of computePnlCurve
RECURSIVE projectedValue(_, _, _, _, _)
projectedValue(strikes_, k, cryptoPrice_, tau_, optionType_) ==
  IF k = 0 THEN 0
  ELSE FAdd(projectedValue(strikes_, k - 1, cryptoPrice_, tau_, optionType_),
            sideValue(strikes_[k].side,
                      priceOptionYes(cryptoPrice_, strikes_[k].strikePrice,
                                     strikes_[k].impliedVol, tau_, optionType_,
                                     strikes_[k].isUpBarrier)))

\* mutant: a price exactly at the strike pays nothing
yesPayoffStrict(cryptoPrice_, strike_, optionType_) ==
  IF optionType_ = "hit"
    THEN IF strike_.isUpBarrier
           THEN (IF FGt(cryptoPrice_, strike_.strikePrice) THEN ONE ELSE 0)
           ELSE (IF FLt(cryptoPrice_, strike_.strikePrice) THEN ONE ELSE 0)
    ELSE (IF FGt(cryptoPrice_, strike_.strikePrice) THEN ONE ELSE 0)

\* mutant: every barrier is taken for an up barrier
yesPayoffUpOnly(cryptoPrice_, strike_, optionType_) ==
  IF FGe(cryptoPrice_, strike_.strikePrice) THEN ONE ELSE 0

\* yesPayoff of computeExpiryPnl
yesPayoff(cryptoPrice_, strike_, optionType_) ==
  IF optionType_ = "hit"
    THEN IF strike_.isUpBarrier
           THEN (IF FGe(cryptoPrice_, strike_.strikePrice) THEN ONE ELSE 0)
           ELSE (IF FLe(cryptoPrice_, strike_.strikePrice) THEN ONE ELSE 0)
    ELSE (IF FGe(cryptoPrice_, strike_.strikePrice) THEN ONE ELSE 0)

\* projectedValue after the first k Strikes of the inner loop of computeExpiryPnl
RECURSIVE expiryValue(_, _, _, _)
expiryValue(strikes_, k, cryptoPrice_, optionType_) ==
  IF k = 0 THEN 0
  ELSE FAdd(expiryValue(strikes_, k - 1, cryptoPrice_, optionType_),
            sideValue(strikes_[k].side, yesPayoff(cryptoPrice_, strikes_[k], optionType_)))

\* what the two generators neither read as a local nor write
curveFrame ==
  <<inputs, ret, evals, a, b, c, fa, fb, fc, d, e, scanLocals, result,
    selectedStrikes, price, x, lowerPrice, upperPrice, numPoints, selectionVars, workerVars, smileVars, screenVars>>

\* the two curve generators
Generators == {"computePnlCurve", "computeExpiryPnl"}

\* a call of a generator has returned
CurveReturned == pc = "idle" /\ fn \in Generators

CurveInit ==
  /\ selectedStrikes \in Portfolios
  /\ \E range \in PriceRanges : lowerPrice = range[1] /\ upperPrice = range[2]
  /\ numPoints \in NumPointsChoices
  /\ tau \in CurveTaus
  /\ optionType \in OptionTypes
  /\ pc = "idle"
  /\ fn = "none" /\ strikes = <<>> /\ points = <<>> /\ previous = NoCall
  /\ totalEntry = 0 /\ step = 0 /\ i = 0
  /\ S = 0 /\ K = 0 /\ yesPrice = 0 /\ isUpBarrier = TRUE /\ maxIter = 0
  /\ caller = "direct" /\ ret = "none" /\ evals = 0
  /\ a = 0 /\ b = 0 /\ c = 0 /\ fa = 0 /\ fb = 0 /\ fc = 0 /\ d = 0 /\ e = 0
  /\ sigma = 0 /\ bestSigma = 0 /\ bestError = 0
  /\ result = null /\ price = 0 /\ x = 0
  /\ SelectionUnused /\ WorkerUnused /\ SmileUnused /\ ScreenUnused

\* mutant: computePnlCurve orders the caller's array in place
PnlEntryInPlace ==
  /\ pc = "idle"
  /\ previous' = [fn |-> fn, strikes |-> strikes, points |-> points]
  /\ fn' = "computePnlCurve"
  /\ \E arg \in Perms(selectedStrikes) :
       /\ strikes' = arg
       /\ selectedStrikes' = arg
       /\ IF Len(arg) = 0 \/ numPoints < 2
            THEN /\ points' = <<>> /\ pc' = "idle"
                 /\ UNCHANGED <<totalEntry, step, i>>
            ELSE /\ totalEntry' = totalEntryOf(arg, Len(arg))
                 /\ step' = stepOf(lowerPrice, upperPrice, numPoints)
                 /\ points' = <<>> /\ i' = 0 /\ pc' = "pnl"
  /\ UNCHANGED <<inputs, ret, evals, a, b, c, fa, fb, fc, d, e, scanLocals, result,
               price, x, lowerPrice, upperPrice, numPoints, selectionVars, workerVars, smileVars, screenVars>>

\* computePnlCurve, from the call to the first turn of the loop; the call
\* before it is kept in previous
PnlEntry ==
  /\ pc = "idle"
  /\ previous' = [fn |-> fn, strikes |-> strikes, points |-> points]
  /\ fn' = "computePnlCurve"
  /\ \E arg \in Perms(selectedStrikes) :
       /\ strikes' = arg
       /\ IF Len(arg) = 0 \/ numPoints < 2
            THEN /\ points' = <<>> /\ pc' = "idle"
                 /\ UNCHANGED <<totalEntry, step, i>>
            ELSE /\ totalEntry' = totalEntryOf(arg, Len(arg))
                 /\ step' = stepOf(lowerPrice, upperPrice, numPoints)
                 /\ points' = <<>> /\ i' = 0 /\ pc' = "pnl"
  /\ UNCHANGED curveFrame

\* one turn of "for (let i = 0; i < numPoints; i++)" of computePnlCurve
PnlPoint ==
  /\ pc = "pnl" /\ i < numPoints
  /\ \E cryptoPrice \in {cryptoPriceAt(lowerPrice, step, i)} :
       points' = Append(points,
                   [cryptoPrice |-> cryptoPrice,
                    pnl |-> FSub(projectedValue(strikes, Len(strikes), cryptoPrice,
                                                tau, optionType),
                                 totalEntry)])
  /\ i' = i + 1
  /\ UNCHANGED <<curveFrame, pc, fn, strikes, totalEntry, step, previous>>

\* "return points" of computePnlCurve
PnlReturn ==
  /\ pc = "pnl" /\ ~(i < numPoints)
  /\ pc' = "idle"
  /\ UNCHANGED <<curveFrame, fn, strikes, totalEntry, step, i, points, previous>>

\* computeExpiryPnl, from the call to the first turn of the loop
ExpiryEntry ==
  /\ pc = "idle"
  /\ previous' = [fn |-> fn, strikes |-> strikes, points |-> points]
  /\ fn' = "computeExpiryPnl"
  /\ \E arg \in Perms(selectedStrikes) :
       /\ strikes' = arg
       /\ IF Len(arg) = 0 \/ numPoints < 2
            THEN /\ points' = <<>> /\ pc' = "idle"
                 /\ UNCHANGED <<totalEntry, step, i>>
            ELSE /\ totalEntry' = totalEntryOf(arg, Len(arg))
                 /\ step' = stepOf(lowerPrice, upperPrice, numPoints)
                 /\ points' = <<>> /\ i' = 0 /\ pc' = "expiry"
  /\ UNCHANGED curveFrame

\* one turn of the loop of computeExpiryPnl
ExpiryPoint ==
  /\ pc = "expiry" /\ i < numPoints
  /\ \E cryptoPrice \in {cryptoPriceAt(lowerPrice, step, i)} :
       points' = Append(points,
                   [cryptoPrice |-> cryptoPrice,
                    pnl |-> FSub(expiryValue(strikes, Len(strikes), cryptoPrice,
                                             optionType),
                                 totalEntry)])
  /\ i' = i + 1
  /\ UNCHANGED <<curveFrame, pc, fn, strikes, totalEntry, step, previous>>

\* "return points" of computeExpiryPnl
ExpiryReturn ==
  /\ pc = "expiry" /\ ~(i < numPoints)
  /\ pc' = "idle"
  /\ UNCHANGED <<curveFrame, fn, strikes, totalEntry, step, i, points, previous>>

CurveNext ==
  \/ PnlEntry
  \/ PnlPoint
  \/ PnlReturn
  \/ ExpiryEntry
  \/ ExpiryPoint
  \/ ExpiryReturn

CurveSpec == CurveInit /\ [][CurveNext]_vars

(***************************************************************************)
(* The selection set of the second screen (selections, handleToggle).  A   *)
(* string is the sequence of its characters.                               *)
(***************************************************************************)
MaxToggles == 3

Sides == {"YES", "NO"}
\* market ids as the API delivers them: strings, here also one holding '-'
MarketIds == {<<"7">>, <<"7", "-", "N", "O">>, <<"8">>}

\* the characters of a Side inside a template literal
sideChars(side_) == IF side_ = "YES" THEN <<"Y", "E", "S">> ELSE <<"N", "O">>

\* mutant: the key leaves the side out
selKeyMarketOnly(marketId_, side_) == marketId_

\* `${marketId}-${side}`
selKey(marketId_, side_) == marketId_ \o <<"-">> \o sideChars(side_)

SelectionInit ==
  /\ selections = {}
  /\ toggles = [pair \in MarketIds \X Sides |-> 0]
  /\ pc = "screen"
  /\ fn = "none" /\ price = 0 /\ x = 0
  /\ S = 0 /\ K = 0 /\ tau = 0 /\ yesPrice = 0 /\ optionType = "above"
  /\ isUpBarrier = TRUE /\ maxIter = 0 /\ caller = "direct"
  /\ ret = "none" /\ evals = 0
  /\ a = 0 /\ b = 0 /\ c = 0 /\ fa = 0 /\ fb = 0 /\ fc = 0 /\ d = 0 /\ e = 0 /\ i = 0
  /\ sigma = 0 /\ bestSigma = 0 /\ bestError = 0
  /\ result = null
  /\ selectedStrikes = <<>>
  /\ CurveUnused /\ WorkerUnused /\ SmileUnused /\ ScreenUnused

\* the default numPoints = 200 of the generators, scaled down
DefaultNumPoints == MaxPoints

\* the markets of an event: solved is what solveImpliedVol returns for the
\* market at the loaded spot; the third one has no parsable strike
Market7 ==
  [id |-> <<"7">>, strikePrice |-> 100000, currentPrice |-> 6 * (ONE \div 10) + 1,
   solved |-> 6 * (ONE \div 10)]
Market7NO ==
  [id |-> <<"7", "-", "N", "O">>, strikePrice |-> 95000, currentPrice |-> 3 * (ONE \div 10),
   solved |-> null]
Market8 ==
  [id |-> <<"8">>, strikePrice |-> 0, currentPrice |-> ONE \div 2, solved |-> null]
MarketLists == {<<Market7>>, <<Market7NO, Market8>>}

\* the part of a string before its first '-'
RECURSIVE upToDash(_)
upToDash(s) ==
  IF s = <<>> \/ Head(s) = "-" THEN <<>> ELSE <<Head(s)>> \o upToDash(Tail(s))

\* key.split('-')[0] and key.split('-')[1]
splitMarketId(key) == upToDash(key)
splitSideStr(key) == upToDash(SubSeq(key, Len(upToDash(key)) + 2, Len(key)))

\* the Side a string of characters spells
sideOf(chars) ==
  IF chars = <<"Y", "E", "S">> THEN "YES" ELSE IF chars = <<"N", "O">> THEN "NO" ELSE "other"

\* markets.find((m) => m.id === marketId): its index, 0 when there is none
findMarket(markets_, marketId_) ==
  IF \E k \in 1..Len(markets_) : markets_[k].id = marketId_
  THEN CHOOSE k \in 1..Len(markets_) :
         /\ markets_[k].id = marketId_
         /\ \A j \in 1..(k - 1) : markets_[j].id # marketId_
  ELSE 0

\* side === 'YES' ? market.currentPrice : (1 - market.currentPrice)
entryPriceOf(side_, currentPrice_) ==
  IF side_ = "YES" THEN currentPrice_ ELSE FSub(ONE, currentPrice_)

\* the SelectedStrike pushed for a key whose market is markets_[k]
strikeOfKey(markets_, k, key) ==
  [marketId |-> markets_[k].id,
   strikePrice |-> markets_[k].strikePrice,
   side |-> sideOf(splitSideStr(key)),
   entryPrice |-> entryPriceOf(sideOf(splitSideStr(key)), markets_[k].currentPrice),
   impliedVol |-> Coalesce(markets_[k].solved)]

\* the loop "for (const key of selections)" over the first n keys
RECURSIVE strikesOfKeys(_, _, _)
strikesOfKeys(markets_, keys_, n) ==
  IF n = 0 THEN <<>>
  ELSE IF findMarket(markets_, splitMarketId(keys_[n])) = 0
          \/ markets_[findMarket(markets_, splitMarketId(keys_[n]))].strikePrice <= 0
       THEN strikesOfKeys(markets_, keys_, n - 1)
       ELSE Append(strikesOfKeys(markets_, keys_, n - 1),
                   strikeOfKey(markets_, findMarket(markets_, splitMarketId(keys_[n])), keys_[n]))

\* the memo selectedStrikes
selectedStrikesMemo(markets_, keys_, spotPrice_, tauNow_) ==
  IF spotPrice_ = 0 \/ tauNow_ <= 0 THEN <<>>
  ELSE strikesOfKeys(markets_, keys_, Len(keys_))

\* the Strikes as a generator reads strike.isUpBarrier, which the screen
\* does not set
withDirection(strikes_, isUp_) ==
  [k \in 1..Len(strikes_) |->
     [marketId |-> strikes_[k].marketId, strikePrice |-> strikes_[k].strikePrice,
      side |-> strikes_[k].side, entryPrice |-> strikes_[k].entryPrice,
      impliedVol |-> strikes_[k].impliedVol, isUpBarrier |-> isUp_]]

\* computePnlCurve(strikes, lowerPrice, upperPrice, tau, optionType), with
\* priceOptionYes taking its default isUpBarrier = true
pnlCurveOf(strikes_, lowerPrice_, upperPrice_, tau_, optionType_) ==
  IF Len(strikes_) = 0 \/ DefaultNumPoints < 2 THEN <<>>
  ELSE [n \in 1..DefaultNumPoints |->
          [cryptoPrice |-> cryptoPriceAt(lowerPrice_,
                             stepOf(lowerPrice_, upperPrice_, DefaultNumPoints), n - 1),
           pnl |-> FSub(projectedValue(withDirection(strikes_, TRUE), Len(strikes_),
                          cryptoPriceAt(lowerPrice_,
                            stepOf(lowerPrice_, upperPrice_, DefaultNumPoints), n - 1),
                          tau_, optionType_),
                        totalEntryOf(strikes_, Len(strikes_)))]]

\* computeExpiryPnl(strikes, lowerPrice, upperPrice, optionType), where an
\* unset strike.isUpBarrier counts as false
expiryCurveOf(strikes_, lowerPrice_, upperPrice_, optionType_) ==
  IF Len(strikes_) = 0 \/ DefaultNumPoints < 2 THEN <<>>
  ELSE [n \in 1..DefaultNumPoints |->
          [cryptoPrice |-> cryptoPriceAt(lowerPrice_,
                             stepOf(lowerPrice_, upperPrice_, DefaultNumPoints), n - 1),
           pnl |-> FSub(expiryValue(withDirection(strikes_, FALSE), Len(strikes_),
                          cryptoPriceAt(lowerPrice_,
                            stepOf(lowerPrice_, upperPrice_, DefaultNumPoints), n - 1),
                          optionType_),
                        totalEntryOf(strikes_, Len(strikes_)))]]

\* tauNow * (2 / 3) and tauNow * (1 / 3)
tau2Of(tauNow_) == FMul(tauNow_, FDiv(2 * ONE, 3 * ONE))
tau3Of(tauNow_) == FMul(tauNow_, FDiv(ONE, 3 * ONE))

\* mutant: the expiry generator is handed the option type of the screen
expiryCallWithType(strikes_, lowerPrice_, upperPrice_, optionType_) ==
  expiryCurveOf(strikes_, lowerPrice_, upperPrice_, optionType_)

\* computeExpiryPnl(selectedStrikes, lower, upper): optionType is 'above'
expiryCall(strikes_, lowerPrice_, upperPrice_, optionType_) ==
  expiryCurveOf(strikes_, lowerPrice_, upperPrice_, "above")

\* the memo projectionCurves
projectionCurvesMemo(strikes_, priceRange_, tauNow_, optionType_) ==
  IF Len(strikes_) = 0 \/ priceRange_[1] <= 0 \/ priceRange_[2] <= priceRange_[1] THEN <<>>
  ELSE <<pnlCurveOf(strikes_, priceRange_[1], priceRange_[2], tauNow_, optionType_),
         pnlCurveOf(strikes_, priceRange_[1], priceRange_[2], tau2Of(tauNow_), optionType_),
         pnlCurveOf(strikes_, priceRange_[1], priceRange_[2], tau3Of(tauNow_), optionType_),
         expiryCall(strikes_, priceRange_[1], priceRange_[2], optionType_)>>

\* what the handlers of the screen neither read nor write
screenFrame ==
  <<S, K, tau, yesPrice, isUpBarrier, maxIter, caller, pc, ret, evals, brentLocals,
    scanLocals, result, pricerVars, x, curveVars, workerVars, smileVars>>

\* handleToggle(marketId, side) and the memos that follow it; toggles
\* counts the calls per pair, keys is the Set in its iteration order
handleToggle(marketId_, side_) ==
  /\ pc = "screen"
  /\ <<marketId_, side_>> \in DOMAIN toggles
  /\ toggles[<<marketId_, side_>>] < MaxToggles
  /\ \E key \in {selKey(marketId_, side_)} :
       /\ selections' = IF key \in selections THEN selections \ {key}
                        ELSE selections \cup {key}
       /\ keys' = IF key \in selections THEN SelectSeq(keys, LAMBDA k_ : k_ # key)
                  ELSE Append(keys, key)
  /\ toggles' = [toggles EXCEPT ![<<marketId_, side_>>] = @ + 1]
  /\ selectedStrikes' = selectedStrikesMemo(markets, keys', spotPrice, tauNow)
  /\ projectionCurves' = projectionCurvesMemo(selectedStrikes', priceRange, tauNow, optionType)
  /\ UNCHANGED <<screenFrame, optionType, markets, spotPrice, tauNow, priceRange>>

SelectionNext == \E marketId_ \in MarketIds, side_ \in Sides : handleToggle(marketId_, side_)

SelectionSpec == SelectionInit /\ [][SelectionNext]_vars

(***************************************************************************)
(* The engine as its callers use it: solveImpliedVol and the two curve     *)
(* generators, each called again and again with the same arguments (every  *)
(* render recomputes selectedStrikes and the curves).  For a call of       *)
(* solveImpliedVol, previous.points holds what the call before returned.   *)
(***************************************************************************)
\* selectedStrikes is computed again (a render of the screen) and calls
\* solveImpliedVol with the same arguments
SolveAgain ==
  /\ pc = "done"
  /\ previous' = [fn |-> "solveImpliedVol", strikes |-> <<>>, points |-> result]
  /\ pc' = "start"
  /\ UNCHANGED <<inputs, ret, evals, brentLocals, scanLocals, result, selectedStrikes,
               pricerVars, x, strikes, lowerPrice, upperPrice, numPoints, totalEntry,
               step, points, selectionVars, workerVars, smileVars, screenVars>>

EngineInit == SolverInit \/ CurveInit

EngineNext ==
  \/ SolverNext
  \/ SolveAgain
  \/ CurveNext

EngineSpec == EngineInit /\ [][EngineNext]_vars

\* the positions of the calibration that have a next statement: the enabling
\* condition of SolverNext, written out
Running ==
  pc \in {"start", "scan", "brent", "test"}
    \/ (pc = "returned" /\ caller = "selectedStrikes")

\* The function runs on one thread without waiting: a statement that can
\* execute does.  This is weak fairness of SolverNext,
\* []<>(~ENABLED <<SolverNext>>_vars \/ <<SolverNext>>_vars), with Running for
\* the enabling condition and []<> distributed over the disjunction.
SolverFairSpec == SolverSpec /\ ([]<>(~Running) \/ []<><<SolverNext>>_vars)

(***************************************************************************)
(* Properties                                                              *)
(***************************************************************************)

C2_NullWhenExpired ==
  (ret # "none" /\ tau <= 0) => result = null

\* C3: with tau > 0, yesPrice <= 0.001 returns exactly 0.01 and
\* yesPrice >= 0.999 returns exactly 10.0, both before any call of the
\* pricer; a price strictly between takes neither shortcut and evaluates f
\* at both ends of the bracket.
C3_PriceEdgePolicy ==
  (ret # "none" /\ tau > 0) =>
     /\ yesPrice <= ONE \div 1000 => (result = ONE \div 100 /\ evals = 0)
     /\ yesPrice >= 999 * (ONE \div 1000) => (result = 10 * ONE /\ evals = 0)
     /\ (yesPrice > ONE \div 1000 /\ yesPrice < 999 * (ONE \div 1000))
          => (ret \notin {"floor", "ceiling", "null"} /\ evals >= 2)

C3_Witness ==
  /\ ret = "ceiling" /\ tau > 0 /\ yesPrice = 999 * (ONE \div 1000)
  /\ result = 10 * ONE /\ evals = 0

\* C4: every call returns: the Brent loop makes at most maxIter turns, one
\* call of f per turn after the two calls at the ends of the bracket, the
\* grid scan makes at most 200 calls of f, and a return is always reached.
C4_Terminates ==
  /\ [](i <= maxIter)
  /\ []((pc \in {"brent", "test"} \/ ret \in {"converged", "exhausted"})
          => evals = 2 + i)
  /\ []((pc = "scan" \/ ret = "scan") => evals <= 2 + 200)
  /\ <>(ret # "none" \/ pc = "done")

C4_Witness ==
  /\ ret = "exhausted" /\ maxIter = SmallMaxIter /\ i = maxIter
  /\ evals = 2 + maxIter /\ result = b

\* C5, as claimed: the grid scan returns a point of the grid
\* {0.05, 0.10, ..., 10.0} at which |f| is least over that grid.
C5_ScanArgminOnGrid ==
  ret = "scan" =>
     /\ \E k \in 1..200 : result = k * GridStep
     /\ \A k \in 1..200 : FLe(FAbs(f(result)), FAbs(f(k * GridStep)))

\* C6: every number returned by the solver lies in [0.01, 10.0], and the
\* volatility stored on a strike by the calibration step is such a number,
\* never null (a null result is replaced by 0.5).
C6_VolInRange ==
  /\ (ret # "none" /\ result # null)
       => (result >= ONE \div 100 /\ result <= 10 * ONE)
  /\ \A k \in 1..Len(selectedStrikes) :
       /\ selectedStrikes[k].impliedVol # null
       /\ selectedStrikes[k].impliedVol >= ONE \div 100
       /\ selectedStrikes[k].impliedVol <= 10 * ONE
       /\ selectedStrikes[k].impliedVol = (IF result = null THEN ONE \div 2 ELSE result)

C6_Witness ==
  /\ pc = "done" /\ Len(selectedStrikes) = 1 /\ ret = "converged"
  /\ selectedStrikes[1].impliedVol = result
  /\ result > ONE \div 100 /\ result < 10 * ONE

\* C7, as claimed: every pricer returns a finite number in [0, 1], never
\* NaN, for all sigma and tau; with sigma <= 0 or tau <= 0 it is 0 or 1.
C7_PricerRange ==
  pc = "priced" =>
     /\ price # NaN /\ price >= 0 /\ price <= ONE
     /\ (sigma <= 0 \/ tau <= 0) => price \in {0, ONE}

\* C8: priceHit (also when reached through priceOptionYes with type hit) is
\* exactly 1 when S = barrier, when the strike's flag says up and
\* S >= barrier, and when it says down and S <= barrier, whatever sigma and
\* tau are; the flag alone decides the side: a strike on the other side of
\* its barrier is not breached, and is worth 0 once tau <= 0 or sigma <= 0.
C8_BreachedIsOne ==
  (pc = "priced" /\ (fn = "priceHit" \/ (fn = "priceOptionYes" /\ optionType = "hit")))
  => /\ (S = K \/ (isUpBarrier /\ S >= K) \/ (~isUpBarrier /\ S <= K)) => price = ONE
     /\ (((isUpBarrier /\ S < K) \/ (~isUpBarrier /\ S > K)) /\ (tau <= 0 \/ sigma <= 0))
          => price # ONE

C8_Witness ==
  /\ pc = "priced" /\ fn = "priceHit"
  /\ ~isUpBarrier /\ S < K /\ sigma > 0 /\ tau > 0 /\ price = ONE

\* C9: with tau <= 0 or sigma <= 0, priceHit is exactly 0 for a barrier not
\* yet breached (S < barrier for up, S > barrier for down).
C9_DegenerateTouchZero ==
  (pc = "priced" /\ fn = "priceHit" /\ (tau <= 0 \/ sigma <= 0)
     /\ ((isUpBarrier /\ S < K) \/ (~isUpBarrier /\ S > K)))
  => price = 0

C9_Witness ==
  /\ pc = "priced" /\ fn = "priceHit"
  /\ ~isUpBarrier /\ S > K /\ tau <= 0 /\ sigma > 0 /\ price = 0

\* C10: with tau <= 0 or sigma <= 0, priceAbove is 1 if S >= K and 0
\* otherwise; at S = K it is 1.
C10_DegenerateBinaryStep ==
  (pc = "priced" /\ fn = "priceAbove" /\ (tau <= 0 \/ sigma <= 0))
  => price = (IF S >= K THEN ONE ELSE 0)

C10_Witness ==
  /\ pc = "priced" /\ fn = "priceAbove"
  /\ S = K /\ tau <= 0 /\ sigma > 0 /\ price = ONE

\* C11, as claimed: for a non-empty portfolio, numPoints >= 2 and
\* upperPrice > lowerPrice a generator returns exactly numPoints points
\* whose price is S_i = lowerPrice + i*(upperPrice-lowerPrice)/(numPoints-1):
\* strictly increasing, uniformly spaced, the first at lowerPrice and the
\* last at upperPrice.
C11_UniformGrid ==
  (CurveReturned /\ Len(strikes) > 0 /\ numPoints >= 2 /\ upperPrice > lowerPrice)
  => /\ Len(points) = numPoints
     /\ points[1].cryptoPrice = lowerPrice
     /\ points[numPoints].cryptoPrice = upperPrice
     /\ \A k \in 1..(numPoints - 1) :
           points[k + 1].cryptoPrice > points[k].cryptoPrice
     /\ \A k \in 1..numPoints :
           (numPoints - 1) * (points[k].cryptoPrice - lowerPrice)
             = (k - 1) * (upperPrice - lowerPrice)

\* C12, as claimed: both generators return the empty curve whenever
\* numPoints < 2, upperPrice <= lowerPrice or the portfolio is empty, and
\* never return a curve whose prices do not increase.
C12_DegenerateEmpty ==
  CurveReturned
  => /\ (numPoints < 2 \/ upperPrice <= lowerPrice \/ Len(strikes) = 0)
          => points = <<>>
     /\ \A k \in 1..(Len(points) - 1) :
           points[k + 1].cryptoPrice > points[k].cryptoPrice

\* C13: every point of computePnlCurve carries pnl = value - entry, where
\* value adds, over the Strikes, yes for a YES position and 1 - yes for a NO
\* position, yes = priceOptionYes(S_i, K, sigma, tau, type, isUpBarrier) of
\* that Strike, and entry adds the Strikes' entry prices.
C13_PortfolioValue ==
  (CurveReturned /\ fn = "computePnlCurve")
  => \A k \in 1..Len(points) :
       LET yes(j) == priceOptionYes(points[k].cryptoPrice, strikes[j].strikePrice,
                                    strikes[j].impliedVol, tau, optionType,
                                    strikes[j].isUpBarrier)
           value[j \in 0..Len(strikes)] ==
             IF j = 0 THEN 0
             ELSE FAdd(value[j - 1],
                       IF strikes[j].side = "YES" THEN yes(j) ELSE FSub(ONE, yes(j)))
           entry[j \in 0..Len(strikes)] ==
             IF j = 0 THEN 0 ELSE FAdd(entry[j - 1], strikes[j].entryPrice)
       IN points[k].pnl = FSub(value[Len(strikes)], entry[Len(strikes)])

C13_Witness ==
  /\ CurveReturned /\ fn = "computePnlCurve"
  /\ tau > 0 /\ optionType = "hit"
  /\ Len(strikes) = 3 /\ Len(points) = MaxPoints
  /\ \E j \in 1..Len(strikes) : strikes[j].side = "NO"
  /\ \E k \in 1..Len(points) : points[k].pnl \notin {0, ONE, -ONE}

\* C14: at expiry a YES position pays, for type above, 1 if S_i >= K and 0
\* otherwise; for type hit, 1 if S_i >= K on an up barrier, 1 if S_i <= K on
\* a down barrier, 0 otherwise; a NO position pays 1 minus that.  Every
\* point of computeExpiryPnl carries the sum of these minus the entry prices.
C14_ExpiryPayoff ==
  (CurveReturned /\ fn = "computeExpiryPnl")
  => \A k \in 1..Len(points) :
       LET payoff(j) ==
             IF optionType = "above"
               THEN (IF points[k].cryptoPrice >= strikes[j].strikePrice THEN ONE ELSE 0)
             ELSE IF strikes[j].isUpBarrier
               THEN (IF points[k].cryptoPrice >= strikes[j].strikePrice THEN ONE ELSE 0)
               ELSE (IF points[k].cryptoPrice <= strikes[j].strikePrice THEN ONE ELSE 0)
           value[j \in 0..Len(strikes)] ==
             IF j = 0 THEN 0
             ELSE FAdd(value[j - 1],
                       IF strikes[j].side = "YES" THEN payoff(j) ELSE ONE - payoff(j))
           entry[j \in 0..Len(strikes)] ==
             IF j = 0 THEN 0 ELSE FAdd(entry[j - 1], strikes[j].entryPrice)
       IN points[k].pnl = FSub(value[Len(strikes)], entry[Len(strikes)])

C14_Witness ==
  /\ CurveReturned /\ fn = "computeExpiryPnl"
  /\ optionType = "hit" /\ Len(points) = numPoints
  /\ \E k \in 1..Len(points), j \in 1..Len(strikes) :
        /\ points[k].cryptoPrice = strikes[j].strikePrice
        /\ ~strikes[j].isUpBarrier /\ strikes[j].side = "NO"
  /\ \E k \in 1..Len(points), j \in 1..Len(strikes) :
        /\ points[k].cryptoPrice = strikes[j].strikePrice
        /\ strikes[j].isUpBarrier /\ strikes[j].side = "YES"

\* C15: with tau = 0 the two generators, called one after the other with
\* the same Strikes, range, numPoints and option type, return the same
\* curve point for point.
C15_ExpiryIsTauZero ==
  (CurveReturned /\ tau = 0 /\ previous.fn \in Generators /\ previous.fn # fn
     /\ previous.strikes = strikes)
  => previous.points = points

C15_Witness ==
  /\ CurveReturned /\ tau = 0 /\ optionType = "hit"
  /\ fn = "computeExpiryPnl" /\ previous.fn = "computePnlCurve"
  /\ previous.strikes = strikes /\ previous.points = points
  /\ Len(points) = MaxPoints /\ upperPrice > lowerPrice
  /\ \E j \in 1..Len(strikes), k \in 1..Len(points) :
        ~strikes[j].isUpBarrier /\ points[k].cryptoPrice < strikes[j].strikePrice

\* C16, as claimed: for an up barrier with S < barrier, sigma > 0 and
\* tau > 0, priceHit(S, barrier, sigma, tau, up) >= priceAbove(S, barrier,
\* sigma, tau), and strictly greater at S = 90000, barrier = 100000,
\* sigma = 0.6, tau = 30/365.25.
C16_TouchDominatesAbove ==
  (pc = "priced" /\ fn = "priceHit" /\ isUpBarrier /\ S < K /\ sigma > 0 /\ tau > 0)
  => /\ FGe(price, priceAbove(S, K, sigma, tau))
     /\ (S = 90000 /\ K = 100000 /\ sigma = 6 * (ONE \div 10) /\ tau = Tau30d)
          => FGt(price, priceAbove(S, K, sigma, tau))

\* C17: for every number x, |normalCDF(x) + normalCDF(-x) - 1| <= 1e-6, x = 0
\* included; for x > 8 the result is exactly 1, for x < -8 exactly 0, and
\* every result lies in [0, 1].
C17_CdfSymmetry ==
  (pc = "priced" /\ fn = "normalCDF")
  => /\ FLe(FAbs(FSub(FAdd(price, normalCDF(FNeg(x))), ONE)), ONE \div 10^6)
     /\ x > 8 * ONE => price = ONE
     /\ x < -8 * ONE => price = 0
     /\ price # NaN /\ price >= 0 /\ price <= ONE

C17_Witness ==
  /\ pc = "priced" /\ fn = "normalCDF"
  /\ x = 0 /\ FAdd(price, normalCDF(FNeg(x))) # ONE

C19_OrderIrrelevant ==
  (CurveReturned /\ previous.fn = fn) => previous.points = points

\* C20: solveImpliedVol and the two generators leave their inputs as they
\* were (the arguments, the strikes array during a call, the caller's
\* Strikes with every field); the caller's Strikes, and with them a
\* Strike's sigma, change only in the calibration step, which stores what
\* solveImpliedVol returned; and a call repeated with the same arguments
\* returns the same result, whatever the calls before it left behind.
C20_Purity ==
  /\ [][/\ inputs' = inputs
        /\ <<lowerPrice, upperPrice, numPoints>>' = <<lowerPrice, upperPrice, numPoints>>
        /\ pc \in {"pnl", "expiry"} => strikes' = strikes
        /\ selectedStrikes' # selectedStrikes
             => /\ pc = "returned" /\ caller = "selectedStrikes"
                /\ Len(selectedStrikes') = 1
                /\ selectedStrikes'[1].impliedVol = Coalesce(result)]_vars
  /\ []((CurveReturned /\ previous.fn = fn /\ previous.strikes = strikes)
          => previous.points = points)
  /\ []((pc = "returned" /\ previous.fn = "solveImpliedVol")
          => previous.points = result)

C20_Witness ==
  /\ CurveReturned /\ previous.fn = fn /\ previous.strikes = strikes
  /\ Len(strikes) = 3 /\ Len(points) = MaxPoints /\ tau > 0
  /\ previous.points = points

\* C25, as claimed: whenever solveImpliedVol returns from the Brent branch,
\* by convergence or by exhausting maxIter (any maxIter >= 0), the returned
\* b satisfies |f(b)| <= |f(c)|, c being the other end of the bracket.
C25_BrentReturnsBest ==
  (pc = "returned" /\ ret \in {"converged", "exhausted"})
  => result = b /\ FLe(FAbs(fb), FAbs(fc))

\* C26: each time the convergence test of the Brent loop is evaluated, f(b)
\* and f(c) do not have the same strict sign, |f(b)| <= |f(c)|, and b and c
\* lie in [0.01, 10.0]; every step moves b by at least the tolerance.
C26_BrentBracket ==
  /\ [](pc = "test"
          => /\ ~ProdPos(fb, fc)
             /\ FLe(FAbs(fb), FAbs(fc))
             /\ FLe(SigmaLo, b) /\ FLe(b, SigmaHi)
             /\ FLe(SigmaLo, c) /\ FLe(c, SigmaHi))
  /\ [][(pc = "test" /\ pc' = "brent")
          => /\ b' # b
             /\ FGe(FAbs(FSub(b', b)), tolerance)]_vars

C26_Witness ==
  /\ pc = "test" /\ i >= 2
  /\ c # SigmaLo /\ c # SigmaHi /\ b # SigmaLo /\ b # SigmaHi
  /\ fb # 0 /\ FLt(FAbs(fb), FAbs(fc))
  /\ ~Converged /\ ~FGt(FAbs(BrentChoice.d), Tol(b))

(***************************************************************************)
(* The screen with its markets, spot and time to expiry: the handlers      *)
(* change the state and the memos selectedStrikes and projectionCurves     *)
(* are recomputed with every change.  spotPrice = 0 stands for the spot    *)
(* not being loaded yet.                                                    *)
(***************************************************************************)
LoadedSpot == 100000
\* <<lower, upper>> as the slider can deliver them
SliderRanges == {<<90000, 105000>>, <<100000, 100000>>}

ScreenInit ==
  /\ markets \in MarketLists
  /\ spotPrice = 0
  /\ tauNow \in {0, Tau30d}
  /\ optionType \in OptionTypes
  /\ priceRange = <<0, 0>>
  /\ selections = {} /\ keys = <<>>
  /\ toggles = [pair \in {markets[k].id : k \in 1..Len(markets)} \X Sides |-> 0]
  /\ selectedStrikes = <<>>
  /\ projectionCurves = <<>>
  /\ pc = "screen"
  /\ fn = "none" /\ price = 0 /\ x = 0
  /\ S = 0 /\ K = 0 /\ tau = 0 /\ yesPrice = 0
  /\ isUpBarrier = TRUE /\ maxIter = 0 /\ caller = "direct"
  /\ ret = "none" /\ evals = 0
  /\ a = 0 /\ b = 0 /\ c = 0 /\ fa = 0 /\ fb = 0 /\ fc = 0 /\ d = 0 /\ e = 0 /\ i = 0
  /\ sigma = 0 /\ bestSigma = 0 /\ bestError = 0
  /\ result = null
  /\ CurveUnused /\ WorkerUnused /\ SmileUnused

\* setSpotPrice(price) once the spot is fetched, and the memos
setSpotPrice ==
  /\ pc = "screen"
  /\ spotPrice = 0
  /\ spotPrice' = LoadedSpot
  /\ selectedStrikes' = selectedStrikesMemo(markets, keys, spotPrice', tauNow)
  /\ projectionCurves' = projectionCurvesMemo(selectedStrikes', priceRange, tauNow, optionType)
  /\ UNCHANGED <<screenFrame, optionType, markets, tauNow, priceRange, keys, selectionVars>>

\* handleSliderChange(_, value): setPriceRange(value), and the memo
handleSliderChange(value) ==
  /\ pc = "screen"
  /\ priceRange # value
  /\ priceRange' = value
  /\ projectionCurves' = projectionCurvesMemo(selectedStrikes, value, tauNow, optionType)
  /\ UNCHANGED <<screenFrame, optionType, markets, spotPrice, tauNow, keys, selectionVars,
               selectedStrikes>>

ScreenNext ==
  \/ \E marketId_ \in MarketIds, side_ \in Sides : handleToggle(marketId_, side_)
  \/ setSpotPrice
  \/ \E value \in SliderRanges : handleSliderChange(value)

ScreenSpec == ScreenInit /\ [][ScreenNext]_vars

\* the (marketId, side) pairs selected now: toggled an odd number of times
SelectedPairs == {pair \in DOMAIN toggles : toggles[pair] % 2 = 1}

\* the market of an id
marketOf(marketId_) == markets[findMarket(markets, marketId_)]

\* the selected pairs whose market has a strike, while the memo is computed
UsablePairs ==
  IF spotPrice = 0 \/ tauNow <= 0 THEN {}
  ELSE {pair \in SelectedPairs : marketOf(pair[1]).strikePrice > 0}

\* the sum of the numbers es[1..n], added in this order
RECURSIVE sumTo(_, _)
sumTo(es, n) == IF n = 0 THEN 0 ELSE FAdd(sumTo(es, n - 1), es[n])

\* C29, as claimed: with the spot loaded and tau > 0, every selected key
\* whose market exists with strikePrice > 0 yields exactly one
\* SelectedStrike with that marketId and side, also for ids holding '-',
\* and there are as many SelectedStrikes as such keys.
C29_KeysRoundTrip ==
  (pc = "screen" /\ spotPrice # 0 /\ tauNow > 0)
  => /\ \A pair \in UsablePairs :
          Cardinality({k \in 1..Len(selectedStrikes) :
                         /\ selectedStrikes[k].marketId = pair[1]
                         /\ selectedStrikes[k].side = pair[2]}) = 1
     /\ Len(selectedStrikes) = Cardinality(UsablePairs)

\* C21, as claimed: every SelectedStrike is entered at the YES price of its
\* market when its side is YES and at 1 - YES price when it is NO, the
\* SelectedStrikes are exactly the selected positions, and every curve
\* subtracts the sum of their entry prices.
C21_EntryCost ==
  (pc = "screen" /\ spotPrice # 0 /\ tauNow > 0)
  => /\ \A k \in 1..Len(selectedStrikes) :
          /\ <<selectedStrikes[k].marketId, selectedStrikes[k].side>> \in UsablePairs
          /\ selectedStrikes[k].entryPrice
               = (IF selectedStrikes[k].side = "YES"
                  THEN marketOf(selectedStrikes[k].marketId).currentPrice
                  ELSE FSub(ONE, marketOf(selectedStrikes[k].marketId).currentPrice))
     /\ Len(selectedStrikes) = Cardinality(UsablePairs)
     /\ \A c_ \in 1..Len(projectionCurves) : \A n \in 1..Len(projectionCurves[c_]) :
          projectionCurves[c_][n].pnl
            = FSub(IF c_ = 4
                   THEN expiryValue(withDirection(selectedStrikes, TRUE), Len(selectedStrikes),
                                    projectionCurves[c_][n].cryptoPrice, optionType)
                   ELSE projectedValue(withDirection(selectedStrikes, TRUE), Len(selectedStrikes),
                                       projectionCurves[c_][n].cryptoPrice,
                                       <<tauNow, tau2Of(tauNow), tau3Of(tauNow)>>[c_], optionType),
                   sumTo([k \in 1..Len(selectedStrikes) |-> selectedStrikes[k].entryPrice],
                         Len(selectedStrikes)))

(***************************************************************************)
(* The worker (worker/index.js).  Paths, hosts and the query string are    *)
(* sequences of characters, so that startsWith, replace and the URL        *)
(* constructor act on them as they do on JavaScript strings.  request is   *)
(* the request being served, upstream what the target API does with a      *)
(* forwarded request, forwarded the requests handed to fetch() and         *)
(* response what the fetch handler returned (Uncaught when it threw).      *)
(***************************************************************************)
GammaPrefix == <<"/", "a", "p", "i", "/", "g", "a", "m", "m", "a">>
ClobPrefix == <<"/", "a", "p", "i", "/", "c", "l", "o", "b">>
BinancePrefix == <<"/", "a", "p", "i", "/", "b", "i", "n", "a", "n", "c", "e">>
GammaHost == <<"g", "a", "m", "m", "a", "-", "a", "p", "i", ".", "p", "o", "l", "y", "m", "a", "r", "k", "e", "t", ".", "c", "o", "m">>
ClobHost == <<"c", "l", "o", "b", ".", "p", "o", "l", "y", "m", "a", "r", "k", "e", "t", ".", "c", "o", "m">>
BinanceHost == <<"a", "p", "i", ".", "b", "i", "n", "a", "n", "c", "e", ".", "c", "o", "m">>

\* Object.entries(ROUTES), in insertion order
ROUTES ==
  <<[routePrefix |-> GammaPrefix, target |-> GammaHost],
    [routePrefix |-> ClobPrefix, target |-> ClobHost]>>

corsHeaders ==
  ("Access-Control-Allow-Origin" :> "*")
  @@ ("Access-Control-Allow-Methods" :> "GET, POST, PUT, DELETE, OPTIONS")
  @@ ("Access-Control-Allow-Headers" :> "Content-Type, Authorization")
  @@ ("Access-Control-Max-Age" :> "86400")

\* the request paths served
PathGammaEvents == <<"/", "a", "p", "i", "/", "g", "a", "m", "m", "a", "/", "e", "v", "e", "n", "t", "s">>
PathGammaBare == <<"/", "a", "p", "i", "/", "g", "a", "m", "m", "a">>
PathGammaSlash == <<"/", "a", "p", "i", "/", "g", "a", "m", "m", "a", "/">>
PathGammaNested == <<"/", "a", "p", "i", "/", "g", "a", "m", "m", "a", "/", "a", "p", "i", "/", "g", "a", "m", "m", "a">>
PathGammaOtherHost == <<"/", "a", "p", "i", "/", "g", "a", "m", "m", "a", "/", "/", "e", "v", "i", "l", ".", "i", "o", "/", "x">>
PathGammaNoHost == <<"/", "a", "p", "i", "/", "g", "a", "m", "m", "a", "/", "/">>
PathGammaTail == <<"/", "a", "p", "i", "/", "g", "a", "m", "m", "a", "z">>
PathClobBook == <<"/", "a", "p", "i", "/", "c", "l", "o", "b", "/", "b", "o", "o", "k">>
PathBinanceTicker == <<"/", "a", "p", "i", "/", "b", "i", "n", "a", "n", "c", "e", "/", "a", "p", "i", "/", "v", "3", "/", "t", "i", "c", "k", "e", "r", "/", "p", "r", "i", "c", "e">>
PathHealth == <<"/", "h", "e", "a", "l", "t", "h">>
Pathnames ==
  {PathGammaEvents, PathGammaBare, PathGammaSlash, PathGammaNested,
   PathGammaOtherHost, PathGammaNoHost, PathGammaTail, PathClobBook,
   PathBinanceTicker, PathHealth}

Methods == {"GET", "POST", "OPTIONS"}
Searches == {<<>>, <<"?", "l", "i", "m", "i", "t", "=", "5">>}

\* preflight: Origin, Access-Control-Request-Method and
\* Access-Control-Request-Headers are all present
Requests ==
  [method : Methods, pathname : Pathnames, search : Searches, preflight : BOOLEAN]

JsonHeaders == ("Content-Type" :> "application/json")
\* what the target API may do with a forwarded request
Upstreams ==
  {[throws |-> FALSE, status |-> 200, headers |-> JsonHeaders],
   [throws |-> FALSE, status |-> 404,
    headers |-> JsonHeaders @@ ("Access-Control-Allow-Origin" :> "https://polymarket.com")],
   [throws |-> FALSE, status |-> 500, headers |-> JsonHeaders],
   [throws |-> TRUE, status |-> 0, headers |-> JsonHeaders]}

\* String.prototype.startsWith
startsWith(s, pat) == Len(s) >= Len(pat) /\ SubSeq(s, 1, Len(pat)) = pat

\* String.prototype.indexOf, counted from 1; 0 when pat does not occur
indexOf(s, pat) ==
  IF \E k \in 1..(Len(s) - Len(pat) + 1) : SubSeq(s, k, k + Len(pat) - 1) = pat
  THEN CHOOSE k \in 1..(Len(s) - Len(pat) + 1) :
         /\ SubSeq(s, k, k + Len(pat) - 1) = pat
         /\ \A j \in 1..(k - 1) : SubSeq(s, j, j + Len(pat) - 1) # pat
  ELSE 0

\* String.prototype.replace with a string pattern: the first occurrence
replace(s, pat, r) ==
  IF indexOf(s, pat) = 0 THEN s
  ELSE SubSeq(s, 1, indexOf(s, pat) - 1) \o r
       \o SubSeq(s, indexOf(s, pat) + Len(pat), Len(s))

\* the route the loop of handleRequest stops at; 0 when it finds none
matchRoute(pathname) ==
  IF \E k \in 1..Len(ROUTES) : startsWith(pathname, ROUTES[k].routePrefix)
  THEN CHOOSE k \in 1..Len(ROUTES) :
         /\ startsWith(pathname, ROUTES[k].routePrefix)
         /\ \A j \in 1..(k - 1) : ~startsWith(pathname, ROUTES[j].routePrefix)
  ELSE 0

\* pathname.replace(prefix, '')
targetPathOf(pathname) == replace(pathname, ROUTES[matchRoute(pathname)].routePrefix, <<>>)

\* new URL(input, 'https://' + baseHost): an input starting with '//' names
\* its own host (none: the constructor throws), one starting with '/' is a
\* path of the base host, any other is resolved against the base path '/'
newURL(input, baseHost) ==
  IF startsWith(input, <<"/", "/">>)
  THEN IF indexOf(SubSeq(input, 3, Len(input)), <<"/">>) = 1 \/ Len(input) = 2
       THEN [ok |-> FALSE, host |-> <<>>, pathname |-> <<>>]
       ELSE IF indexOf(SubSeq(input, 3, Len(input)), <<"/">>) = 0
            THEN [ok |-> TRUE, host |-> SubSeq(input, 3, Len(input)), pathname |-> <<"/">>]
            ELSE [ok |-> TRUE,
                  host |-> SubSeq(input, 3, 1 + indexOf(SubSeq(input, 3, Len(input)), <<"/">>)),
                  pathname |-> SubSeq(input, 2 + indexOf(SubSeq(input, 3, Len(input)), <<"/">>),
                                      Len(input))]
  ELSE IF startsWith(input, <<"/">>)
       THEN [ok |-> TRUE, host |-> baseHost, pathname |-> input]
       ELSE [ok |-> TRUE, host |-> baseHost, pathname |-> <<"/">> \o input]

\* targetUrl: new URL(targetPath || '/', targetBase)
targetUrlOf(pathname) ==
  newURL(IF targetPathOf(pathname) = <<>> THEN <<"/">> ELSE targetPathOf(pathname),
         ROUTES[matchRoute(pathname)].target)

\* headers.set(key, value) for every entry of more
setAll(headers, more) ==
  [n \in DOMAIN headers \cup DOMAIN more |-> IF n \in DOMAIN more THEN more[n] ELSE headers[n]]

\* the fetch handler threw: the worker returned no response of its own
Uncaught == [exception |-> "TypeError: Invalid URL"]

WorkerInit ==
  /\ request \in Requests
  /\ upstream \in Upstreams
  /\ response = <<>>
  /\ forwarded = <<>>
  /\ pc = "worker"
  /\ fn = "none" /\ price = 0 /\ x = 0
  /\ S = 0 /\ K = 0 /\ tau = 0 /\ yesPrice = 0 /\ optionType = "above"
  /\ isUpBarrier = TRUE /\ maxIter = 0 /\ caller = "direct"
  /\ ret = "none" /\ evals = 0
  /\ a = 0 /\ b = 0 /\ c = 0 /\ fa = 0 /\ fb = 0 /\ fc = 0 /\ d = 0 /\ e = 0 /\ i = 0
  /\ sigma = 0 /\ bestSigma = 0 /\ bestError = 0
  /\ result = null
  /\ selectedStrikes = <<>>
  /\ CurveUnused /\ SelectionUnused /\ SmileUnused /\ ScreenUnused

\* what the worker neither reads nor writes
workerFrame ==
  <<inputs, ret, evals, brentLocals, scanLocals, result, selectedStrikes,
    pricerVars, x, curveVars, selectionVars, smileVars, screenVars>>

\* fetch: request.method === 'OPTIONS', handleOptions(request)
handleOptions ==
  /\ pc = "worker"
  /\ request.method = "OPTIONS"
  /\ response' = [status |-> 200, body |-> <<>>,
                  headers |-> IF request.preflight THEN corsHeaders
                              ELSE ("Allow" :> "GET, POST, PUT, DELETE, OPTIONS")]
  /\ pc' = "responded"
  /\ UNCHANGED <<request, upstream, forwarded, workerFrame>>

\* handleRequest: no route matches
handleRequestNotFound ==
  /\ pc = "worker"
  /\ request.method # "OPTIONS"
  /\ matchRoute(request.pathname) = 0
  /\ response' = [status |-> 404,
                  body |-> [error |-> "Not found", path |-> request.pathname],
                  headers |-> setAll(JsonHeaders, corsHeaders)]
  /\ pc' = "responded"
  /\ UNCHANGED <<request, upstream, forwarded, workerFrame>>

\* handleRequest: new URL(...) throws, outside the try block
handleRequestThrows ==
  /\ pc = "worker"
  /\ request.method # "OPTIONS"
  /\ matchRoute(request.pathname) # 0
  /\ ~targetUrlOf(request.pathname).ok
  /\ response' = Uncaught
  /\ pc' = "responded"
  /\ UNCHANGED <<request, upstream, forwarded, workerFrame>>

\* the request handleRequest hands to fetch()
modifiedRequest ==
  [method |-> request.method,
   host |-> targetUrlOf(request.pathname).host,
   pathname |-> targetUrlOf(request.pathname).pathname,
   search |-> request.search]

\* mutant: the upstream headers are passed on as they are
proxiedHeadersAsUpstream(headers) == headers

\* modifiedResponse.headers.set(key, value) for every entry of corsHeaders
proxiedHeaders(headers) == setAll(headers, corsHeaders)

\* handleRequest: the request is forwarded and the upstream answers
handleRequestProxied ==
  /\ pc = "worker"
  /\ request.method # "OPTIONS"
  /\ matchRoute(request.pathname) # 0
  /\ targetUrlOf(request.pathname).ok
  /\ ~upstream.throws
  /\ forwarded' = <<modifiedRequest>>
  /\ response' = [status |-> upstream.status, body |-> [upstream |-> upstream.status],
                  headers |-> proxiedHeaders(upstream.headers)]
  /\ pc' = "responded"
  /\ UNCHANGED <<request, upstream, workerFrame>>

\* handleRequest: fetch() throws and the catch block answers
handleRequestProxyError ==
  /\ pc = "worker"
  /\ request.method # "OPTIONS"
  /\ matchRoute(request.pathname) # 0
  /\ targetUrlOf(request.pathname).ok
  /\ upstream.throws
  /\ forwarded' = <<modifiedRequest>>
  /\ response' = [status |-> 502,
                  body |-> [error |-> "Proxy error", message |-> "fetch failed"],
                  headers |-> setAll(JsonHeaders, corsHeaders)]
  /\ pc' = "responded"
  /\ UNCHANGED <<request, upstream, workerFrame>>

\* the next request arrives
Arrive ==
  /\ pc = "responded"
  /\ request' \in Requests
  /\ upstream' \in Upstreams
  /\ response' = <<>>
  /\ forwarded' = <<>>
  /\ pc' = "worker"
  /\ UNCHANGED workerFrame

WorkerNext ==
  \/ handleOptions
  \/ handleRequestNotFound
  \/ handleRequestThrows
  \/ handleRequestProxied
  \/ handleRequestProxyError
  \/ Arrive

WorkerSpec == WorkerInit /\ [][WorkerNext]_vars

\* the worker answered the request with a response of its own
Answered == pc = "responded" /\ response # Uncaught

\* the request path is under the prefix: prefix followed by '/'
Under(prefix) == startsWith(request.pathname, prefix \o <<"/">>)

\* C23, as claimed: a non-OPTIONS request under /api/gamma/ goes to
\* gamma-api.polymarket.com and one under /api/clob/ to clob.polymarket.com,
\* with the prefix removed from the path ('/' when nothing remains), the
\* query string and the method kept, and the upstream status is returned.
C23_ProxyRouting ==
  (pc = "responded" /\ request.method # "OPTIONS" /\ (Under(GammaPrefix) \/ Under(ClobPrefix)))
  => /\ Len(forwarded) = 1
     /\ forwarded[1].host = (IF Under(GammaPrefix) THEN GammaHost ELSE ClobHost)
     /\ forwarded[1].pathname
          = SubSeq(request.pathname,
                   Len(IF Under(GammaPrefix) THEN GammaPrefix ELSE ClobPrefix) + 1,
                   Len(request.pathname))
     /\ forwarded[1].search = request.search
     /\ forwarded[1].method = request.method
     /\ ~upstream.throws => response.status = upstream.status

\* C24, as claimed: a request under /api/binance/ is forwarded to
\* api.binance.com with the prefix removed and is not answered with 404.
C24_BinanceRoute ==
  (pc = "responded" /\ request.method # "OPTIONS" /\ Under(BinancePrefix))
  => /\ response.status # 404
     /\ Len(forwarded) = 1
     /\ forwarded[1].host = BinanceHost
     /\ forwarded[1].pathname
          = SubSeq(request.pathname, Len(BinancePrefix) + 1, Len(request.pathname))

\* C30: every response the worker itself produces for a non-OPTIONS request
\* carries the four CORS headers with the worker's values, whatever the
\* upstream sent; a path matching no route is answered 404 'Not found'
\* without an upstream call; a fetch that throws is answered 502 'Proxy
\* error'; an OPTIONS request is answered locally and never forwarded.
C30_ProxyErrorResponses ==
  /\ (Answered /\ request.method # "OPTIONS")
       => \A h \in DOMAIN corsHeaders :
            h \in DOMAIN response.headers /\ response.headers[h] = corsHeaders[h]
  /\ (pc = "responded" /\ request.method # "OPTIONS" /\ matchRoute(request.pathname) = 0)
       => /\ Answered
          /\ response.status = 404
          /\ response.body = [error |-> "Not found", path |-> request.pathname]
          /\ forwarded = <<>>
  /\ (pc = "responded" /\ request.method # "OPTIONS" /\ forwarded # <<>> /\ upstream.throws)
       => /\ Answered
          /\ response.status = 502
          /\ response.body.error = "Proxy error"
  /\ (pc = "responded" /\ request.method = "OPTIONS")
       => Answered /\ forwarded = <<>>

\* a proxied answer whose upstream set its own Access-Control-Allow-Origin
C30_Witness ==
  /\ Answered
  /\ request.method = "POST"
  /\ forwarded # <<>>
  /\ "Access-Control-Allow-Origin" \in DOMAIN upstream.headers
  /\ upstream.headers["Access-Control-Allow-Origin"] # "*"
  /\ response.status = upstream.status
  /\ response.headers["Access-Control-Allow-Origin"] = "*"

(***************************************************************************)
(* The volatility smile.  A smile is a sequence of SmilePoints ascending   *)
(* by moneyness, one per market strike; interpolateSmile is piecewise      *)
(* linear between the two bracketing points and flat outside the range.    *)
(***************************************************************************)
MaxNodes == 3

\* ln(S_calibration / K) of the market strikes, one step apart
MoneynessStep == 5 * (ONE \div 100)
NodeMoneynesses == {(k - 2) * MoneynessStep : k \in 1..MaxNodes}
\* calibrated volatilities; the last one is above 1, where the spacing of
\* the representable numbers is wider
IvChoices == {3 * (ONE \div 10) + 1, 6 * (ONE \div 10), 2 * ONE}

\* the elements of a set of numbers in ascending order
Ascending(ms) ==
  CHOOSE q \in [1..Cardinality(ms) -> ms] :
    \A j, k \in 1..Cardinality(ms) : j < k => q[j] < q[k]

Smiles ==
  UNION {{[k \in 1..Cardinality(ms) |-> [moneyness |-> Ascending(ms)[k], iv |-> ivs[k]]] :
            ivs \in [1..Cardinality(ms) -> IvChoices]} :
         ms \in SUBSET NodeMoneynesses}

\* the moneyness looked up: the nodes, points between them and outside
Lookups ==
  NodeMoneynesses
  \cup {m + MoneynessStep \div 4 : m \in NodeMoneynesses}
  \cup {0 - 3 * MoneynessStep, MaxNodes * MoneynessStep}

\* the value on the line through two SmilePoints
lerp(p0, p1, m) ==
  FAdd(p0.iv,
       FMul(FSub(p1.iv, p0.iv),
            FDiv(FSub(m, p0.moneyness), FSub(p1.moneyness, p0.moneyness))))

\* mutant: the bracket is closed on the right
bracketRightClosed(smile_, m) ==
  CHOOSE k \in 1..(Len(smile_) - 1) :
    FLt(smile_[k].moneyness, m) /\ FLe(m, smile_[k + 1].moneyness)

\* the index of the left one of the two bracketing points
bracket(smile_, m) ==
  CHOOSE k \in 1..(Len(smile_) - 1) :
    FLe(smile_[k].moneyness, m) /\ FLt(m, smile_[k + 1].moneyness)

\* interpolateSmile(smile, moneyness); null when the smile is empty
interpolateSmile(smile_, m) ==
  IF smile_ = <<>> THEN null
  ELSE IF FLe(m, smile_[1].moneyness) THEN smile_[1].iv
  ELSE IF FGe(m, smile_[Len(smile_)].moneyness) THEN smile_[Len(smile_)].iv
  ELSE lerp(smile_[bracket(smile_, m)], smile_[bracket(smile_, m) + 1], m)

SmileInit ==
  /\ smile \in Smiles
  /\ moneyness \in Lookups
  /\ iv = 0
  /\ pc = "smile"
  /\ fn = "none" /\ price = 0 /\ x = 0
  /\ S = 0 /\ K = 0 /\ tau = 0 /\ yesPrice = 0 /\ optionType = "above"
  /\ isUpBarrier = TRUE /\ maxIter = 0 /\ caller = "direct"
  /\ ret = "none" /\ evals = 0
  /\ a = 0 /\ b = 0 /\ c = 0 /\ fa = 0 /\ fb = 0 /\ fc = 0 /\ d = 0 /\ e = 0 /\ i = 0
  /\ sigma = 0 /\ bestSigma = 0 /\ bestError = 0
  /\ result = null
  /\ selectedStrikes = <<>>
  /\ CurveUnused /\ SelectionUnused /\ WorkerUnused /\ ScreenUnused

CallInterpolateSmile ==
  /\ pc = "smile"
  /\ iv' = interpolateSmile(smile, moneyness)
  /\ pc' = "smiled"
  /\ UNCHANGED <<inputs, ret, evals, brentLocals, scanLocals, result, selectedStrikes,
               pricerVars, x, curveVars, selectionVars, workerVars, smile, moneyness,
               screenVars>>

SmileNext == CallInterpolateSmile

SmileSpec == SmileInit /\ [][SmileNext]_vars

Hedged(yes_, no_) ==
  /\ yes_.marketId = no_.marketId
  /\ yes_.side = "YES" /\ no_.side = "NO"
  /\ yes_.strikePrice = no_.strikePrice
  /\ yes_.impliedVol = no_.impliedVol
  /\ yes_.isUpBarrier = no_.isUpBarrier
  /\ no_.entryPrice = FSub(ONE, yes_.entryPrice)

\* the YES value of a Strike at a sample spot, as the running generator takes it
yesValueAt(strike_, cryptoPrice_) ==
  IF fn = "computePnlCurve"
  THEN priceOptionYes(cryptoPrice_, strike_.strikePrice, strike_.impliedVol, tau,
                      optionType, strike_.isUpBarrier)
  ELSE yesPayoff(cryptoPrice_, strike_, optionType)

\* C28: in a returned curve of either generator, at every sample spot and
\* for every tau, the two Strikes of a hedged pair add exactly 1 to the
\* value and exactly 1 to the entry cost, and the curve of a portfolio that
\* is the pair alone is 0 at every point.
C28_HedgedPairFlat ==
  (CurveReturned /\ points # <<>>)
  => \A j, k \in 1..Len(strikes) :
       Hedged(strikes[j], strikes[k])
       => /\ FAdd(strikes[j].entryPrice, strikes[k].entryPrice) = ONE
          /\ \A n \in 1..Len(points) :
               /\ FAdd(sideValue(strikes[j].side, yesValueAt(strikes[j], points[n].cryptoPrice)),
                       sideValue(strikes[k].side, yesValueAt(strikes[k], points[n].cryptoPrice)))
                    = ONE
               /\ Len(strikes) = 2 => points[n].pnl = 0

\* the curve generator has priced the pair alone, a year-fraction before
\* expiry, at a spot where the YES price is strictly between 0 and 1
C28_Witness ==
  /\ CurveReturned /\ fn = "computePnlCurve" /\ tau = Tau30d
  /\ Len(strikes) = 2 /\ Hedged(strikes[2], strikes[1])
  /\ Len(points) = MaxPoints
  /\ \E n \in 1..Len(points) :
       /\ yesValueAt(strikes[1], points[n].cryptoPrice) \notin {0, ONE}
       /\ points[n].pnl = 0

\* C27: with at least one SelectedStrike and 0 < lower < upper the screen
\* holds exactly four curves, for tau, tau * (2/3), tau * (1/3) and expiry,
\* each priced from the same Strikes, range, option type and (up) barrier
\* direction, of one length and with the same spot at every index;
\* otherwise it holds no curve.
C27_FourAlignedCurves ==
  pc = "screen"
  => IF Len(selectedStrikes) >= 1 /\ 0 < priceRange[1] /\ priceRange[1] < priceRange[2]
     THEN /\ Len(projectionCurves) = 4
          /\ Len(projectionCurves[1]) = DefaultNumPoints
          /\ projectionCurves[1][1].cryptoPrice = priceRange[1]
          /\ \A c_ \in 1..4 :
               /\ Len(projectionCurves[c_]) = Len(projectionCurves[1])
               /\ \A n \in 1..Len(projectionCurves[1]) :
                    /\ projectionCurves[c_][n].cryptoPrice = projectionCurves[1][n].cryptoPrice
                    /\ projectionCurves[c_][n].pnl
                         = FSub(IF c_ = 4
                                THEN expiryValue(withDirection(selectedStrikes, TRUE),
                                                 Len(selectedStrikes),
                                                 projectionCurves[1][n].cryptoPrice, optionType)
                                ELSE projectedValue(withDirection(selectedStrikes, TRUE),
                                                    Len(selectedStrikes),
                                                    projectionCurves[1][n].cryptoPrice,
                                                    <<tauNow, tau2Of(tauNow), tau3Of(tauNow)>>[c_],
                                                    optionType),
                                totalEntryOf(selectedStrikes, Len(selectedStrikes)))
     ELSE projectionCurves = <<>>

\* four curves of a 'hit' event for the NO side of a market, no two of
\* them alike
C27_Witness ==
  /\ pc = "screen" /\ optionType = "hit"
  /\ Len(selectedStrikes) = 1 /\ selectedStrikes[1].side = "NO"
  /\ Len(projectionCurves) = 4
  /\ \A c1, c2 \in 1..4 : c1 # c2 => projectionCurves[c1] # projectionCurves[c2]

====
